---- MODULE Spec2Model ----
(***************************************************************************)
(* A model of the e-commerce analytics core: the store-type detector       *)
(* (modules/detector.py), the column mapper (modules/mapper.py) and the    *)
(* analyzer (modules/analyzer.py).                                         *)
(*                                                                         *)
(* A table (pandas DataFrame) is a sequence of columns, each a record      *)
(*   [name |-> string, dtype |-> "object" | "int64" | "float64",           *)
(*    cells |-> sequence of strings]                                       *)
(* where a cell holds the text of its value and "" is a missing value      *)
(* (NaN / None).  Conversions (lower-casing, regular-expression search,    *)
(* to_numeric, to_datetime) are computed on that text.  The modelled       *)
(* tables use ASCII names and values, so the dictionary entries written    *)
(* in Arabic script, which can match no ASCII text, are left out of the    *)
(* pattern tables.                                                         *)
(***************************************************************************)
EXTENDS Integers, Sequences, FiniteSets, TLC

VARIABLES
  table,            \* the caller's table: the argument of the operation
  mapping,          \* the caller's mapping: what auto_detect returned, or the
                    \* mapping the caller passes to analyze
  pc,               \* which operation ran last
  scoring,          \* mapper: the mapping as it stood before the date post-pass
  detected,         \* detector: the result of detect
  config,           \* analyzer: self.config
  self_dataframe,   \* analyzer: self.dataframe
  self_mapping,     \* analyzer: self.mapping
  self_results,     \* analyzer: self.results
  outcome,          \* analyzer: how the last analyze call ended, and its result
  remembered,       \* one earlier analyze call that returned: its input and result
  validation,       \* mapper: the result of validate_mapping
  structure,        \* validators: the result of validate_dataframe_structure
  upload,           \* helpers: the result of validate_file_upload
  display,          \* detector: the result of get_store_type_display_name
  app               \* the UI shell: the fields of EcommerceAnalyticsApp

vars == <<table, mapping, pc, scoring, detected, config, self_dataframe,
          self_mapping, self_results, outcome, remembered, validation,
          structure, upload, display, app>>

-----------------------------------------------------------------------------
(* Text: characters, lower-casing, substring test.                         *)

Ch(s, i) == SubSeq(s, i, i)

UpperAlphabet == "ABCDEFGHIJKLMNOPQRSTUVWXYZ"
LowerAlphabet == "abcdefghijklmnopqrstuvwxyz"
Digits == "0123456789"

DigitSet == {Ch(Digits, i) : i \in 1..Len(Digits)}

IsDigit(c) == c \in DigitSet

DigitVal(c) == (CHOOSE i \in 1..Len(Digits) : Ch(Digits, i) = c) - 1

\* the lower-case letter of every upper-case letter
LowerOf ==
  [c \in {Ch(UpperAlphabet, i) : i \in 1..Len(UpperAlphabet)} |->
     Ch(LowerAlphabet, CHOOSE i \in 1..Len(UpperAlphabet) : Ch(UpperAlphabet, i) = c)]

LowerCh(c) == IF c \in DOMAIN LowerOf THEN LowerOf[c] ELSE c

RECURSIVE ToLower(_)
\* str.lower()
ToLower(s) == IF s = "" THEN "" ELSE LowerCh(Ch(s, 1)) \o ToLower(Tail(s))

\* Python's `k in s` on strings
Contains(s, k) ==
  \E i \in 1..(Len(s) + 1) : i + Len(k) - 1 <= Len(s) /\ SubSeq(s, i, i + Len(k) - 1) = k

-----------------------------------------------------------------------------
(* The regular expressions the pattern tables use: literal characters,     *)
(* '.?' (an optional arbitrary character), '\d+' (one or more digits),     *)
(* '\.' (a literal dot) and top-level alternation '|'.                     *)

RECURSIVE Alternatives(_, _)
\* the alternatives of pattern p, the current one having collected acc
Alternatives(p, acc) ==
  IF p = "" THEN <<acc>>
  ELSE IF Ch(p, 1) = "|" THEN <<acc>> \o Alternatives(Tail(p), "")
  ELSE Alternatives(Tail(p), acc \o Ch(p, 1))

RECURSIVE MatchHere(_, _, _, _)
\* pattern p from position i matches a prefix of s starting at position j
MatchHere(p, i, s, j) ==
  IF i > Len(p) THEN TRUE
  ELSE IF i + 2 <= Len(p) /\ SubSeq(p, i, i + 2) = "\\d+"
  THEN \E k \in 1..(Len(s) - j + 1) :
         /\ \A m \in j..(j + k - 1) : IsDigit(Ch(s, m))
         /\ MatchHere(p, i + 3, s, j + k)
  ELSE IF i + 1 <= Len(p) /\ SubSeq(p, i, i + 1) = "\\."
  THEN j <= Len(s) /\ Ch(s, j) = "." /\ MatchHere(p, i + 2, s, j + 1)
  ELSE IF i + 1 <= Len(p) /\ SubSeq(p, i, i + 1) = ".?"
  THEN \/ MatchHere(p, i + 2, s, j)
       \/ j <= Len(s) /\ MatchHere(p, i + 2, s, j + 1)
  ELSE /\ j <= Len(s)
       /\ Ch(s, j) = Ch(p, i)
       /\ MatchHere(p, i + 1, s, j + 1)

\* re.search(p, s); with icase (re.IGNORECASE) letters are compared in lower case
Search(p, s, icase) ==
  LET alts == Alternatives(IF icase THEN ToLower(p) ELSE p, "")
      text == IF icase THEN ToLower(s) ELSE s
  IN \E a \in 1..Len(alts) : \E j \in 1..(Len(text) + 1) : MatchHere(alts[a], 1, text, j)

-----------------------------------------------------------------------------
(* Tables.                                                                 *)

Range(f) == {f[x] : x \in DOMAIN f}

\* dataframe.columns.tolist()
Columns(df) == [i \in 1..Len(df) |-> df[i].name]

HasColumn(df, name) == \E i \in 1..Len(df) : df[i].name = name

\* dataframe[name]
Col(df, name) == df[CHOOSE i \in 1..Len(df) : df[i].name = name]

\* len(dataframe): 0 for a table without columns
NumRows(df) == IF Len(df) = 0 THEN 0 ELSE Len(df[1].cells)

IsNull(c) == c = ""

\* series.dropna()
DropNa(cells) == SelectSeq(cells, LAMBDA c : ~IsNull(c))

\* series.head(n)
Head_n(cells, n) == SubSeq(cells, 1, IF Len(cells) < n THEN Len(cells) ELSE n)

RECURSIVE ParseNat(_, _)
\* the number a string of digits denotes, read left to right from acc
ParseNat(s, acc) ==
  IF s = "" THEN acc ELSE ParseNat(Tail(s), 10 * acc + DigitVal(Ch(s, 1)))

IsNatText(s) == s # "" /\ \A i \in 1..Len(s) : IsDigit(Ch(s, i))

\* text of an integer: digits with an optional leading minus sign
IsIntText(s) ==
  \/ IsNatText(s)
  \/ Len(s) > 1 /\ Ch(s, 1) = "-" /\ IsNatText(Tail(s))

IntOf(s) == IF Ch(s, 1) = "-" THEN 0 - ParseNat(Tail(s), 0) ELSE ParseNat(s, 0)

IsLeap(y) == (y % 4 = 0 /\ y % 100 # 0) \/ y % 400 = 0

DaysInMonth(y, m) ==
  IF m = 2 THEN (IF IsLeap(y) THEN 29 ELSE 28)
  ELSE IF m \in {4, 6, 9, 11} THEN 30 ELSE 31

\* a calendar date written YYYY-MM-DD
IsDateText(s) ==
  /\ Len(s) = 10
  /\ Ch(s, 5) = "-" /\ Ch(s, 8) = "-"
  /\ IsNatText(SubSeq(s, 1, 4)) /\ IsNatText(SubSeq(s, 6, 7)) /\ IsNatText(SubSeq(s, 9, 10))
  /\ LET y == ParseNat(SubSeq(s, 1, 4), 0)
         m == ParseNat(SubSeq(s, 6, 7), 0)
         d == ParseNat(SubSeq(s, 9, 10), 0)
     IN m \in 1..12 /\ d \in 1..DaysInMonth(y, m)

\* the calendar day of a timestamp a few nanoseconds after the epoch
EpochDay == "1970-01-01"

\* pd.to_datetime(series, errors='coerce') on one cell of a column of the
\* given dtype: the calendar day it converts to, or "" (NaT).  An integer or
\* float is read as nanoseconds since the epoch; text converts when it is a date.
ToDatetime(c, dtype) ==
  IF IsNull(c) THEN ""
  ELSE IF dtype \in {"int64", "float64"} THEN EpochDay
  ELSE IF dtype = "datetime64" THEN c
  ELSE IF IsDateText(c) THEN c ELSE ""

\* pd.to_numeric(series, errors='coerce') on one cell: the text of the number,
\* or "" (NaN)
ToNumeric(c, dtype) ==
  IF IsNull(c) THEN ""
  ELSE IF IsIntText(c) THEN c ELSE ""

-----------------------------------------------------------------------------
(* modules/mapper.py: EcommerceColumnMapper                                *)

\* the keys of self.patterns, in declaration order
FieldTypes ==
  <<"transaction_id", "order_date", "customer_id", "customer_email", "product_id",
    "product_name", "quantity", "unit_price", "total_amount", "payment_method",
    "shipping_address">>

\* _initialize_patterns
initialize_patterns ==
  [transaction_id |->
     [patterns |-> <<"order.?id", "transaction.?id", "invoice.?no">>,
      keywords |-> <<"order", "transaction", "invoice", "id">>, priority |-> 10],
   order_date |->
     [patterns |-> <<"order.?date", "purchase.?date", "created.?at">>,
      keywords |-> <<"date", "created", "time">>, priority |-> 9],
   customer_id |->
     [patterns |-> <<"customer.?id", "user.?id", "client.?id">>,
      keywords |-> <<"customer", "user", "client">>, priority |-> 8],
   customer_email |->
     [patterns |-> <<"email", "customer.?email", "user.?email">>,
      keywords |-> <<"email">>, priority |-> 7],
   product_id |->
     [patterns |-> <<"product.?id", "item.?id", "sku", "variant.?id">>,
      keywords |-> <<"product", "item", "sku", "variant">>, priority |-> 8],
   product_name |->
     [patterns |-> <<"product.?name", "item.?name", "title">>,
      keywords |-> <<"product", "item", "title", "name">>, priority |-> 7],
   quantity |->
     [patterns |-> <<"quantity", "qty", "count">>,
      keywords |-> <<"quantity", "qty", "count">>, priority |-> 6],
   unit_price |->
     [patterns |-> <<"unit.?price", "price", "cost">>,
      keywords |-> <<"price", "cost">>, priority |-> 6],
   total_amount |->
     [patterns |-> <<"total", "amount", "revenue">>,
      keywords |-> <<"total", "amount", "revenue">>, priority |-> 9],
   payment_method |->
     [patterns |-> <<"payment.?method", "payment.?type">>,
      keywords |-> <<"payment", "method">>, priority |-> 5],
   shipping_address |->
     [patterns |-> <<"shipping.?address", "delivery.?address">>,
      keywords |-> <<"shipping", "delivery", "address">>, priority |-> 4]]

\* the score of one (column, field) pair: 3 if some pattern matches, 2 for
\* every keyword the lower-cased name contains, and the field's priority on
\* top when that is positive
MatchScore(column, field_type) ==
  LET column_lower == ToLower(column)
      info == initialize_patterns[field_type]
      byPattern ==
        IF \E k \in 1..Len(info.patterns) : Search(info.patterns[k], column_lower, TRUE)
        THEN 3 ELSE 0
      byKeyword ==
        2 * Cardinality({k \in 1..Len(info.keywords) : Contains(column_lower, info.keywords[k])})
      score == byPattern + byKeyword
  IN IF score > 0 THEN score + info.priority ELSE 0

\* the matches list as the two nested loops build it: columns outermost,
\* fields in declaration order, pairs of score 0 left out
Matches(df) ==
  LET nf == Len(FieldTypes)
      all == [n \in 1..(Len(df) * nf) |->
                LET column == df[((n - 1) \div nf) + 1].name
                    field_type == FieldTypes[((n - 1) % nf) + 1]
                IN [column |-> column, field_type |-> field_type,
                    score |-> MatchScore(column, field_type)]]
  IN SelectSeq(all, LAMBDA m : m.score > 0)

RECURSIVE InsertDescUnstable(_, _)
\* a variant of the insertion that puts m in front of the elements of equal
\* score (sensitivity of C22 to the stability of the sort)
InsertDescUnstable(sorted, m) ==
  IF sorted = <<>> THEN <<m>>
  ELSE IF Head(sorted).score > m.score
       THEN <<Head(sorted)>> \o InsertDescUnstable(Tail(sorted), m)
  ELSE <<m>> \o sorted

RECURSIVE InsertDesc(_, _)
\* sorted with m put behind every element whose score is not smaller
InsertDesc(sorted, m) ==
  IF sorted = <<>> THEN <<m>>
  ELSE IF Head(sorted).score >= m.score THEN <<Head(sorted)>> \o InsertDesc(Tail(sorted), m)
  ELSE <<m>> \o sorted

RECURSIVE SortMatches(_, _)
\* matches.sort(key=score, reverse=True): descending and stable
SortMatches(ms, sorted) ==
  IF ms = <<>> THEN sorted ELSE SortMatches(Tail(ms), InsertDesc(sorted, Head(ms)))

\* the guard of the assignment loop
MayAssign(m, st) ==
  m.column \notin st.assigned_columns /\ m.field_type \notin st.assigned_fields

RECURSIVE AssignLoopStop(_, _)
\* a variant of the loop that stops at the first match it cannot take
\* (sensitivity of C29 to the loop going on after a conflict)
AssignLoopStop(ms, st) ==
  IF ms = <<>> THEN st
  ELSE LET m == Head(ms)
       IN IF MayAssign(m, st)
          THEN AssignLoopStop(Tail(ms),
                 [suggestions |-> (m.field_type :> m.column) @@ st.suggestions,
                  assigned_columns |-> st.assigned_columns \cup {m.column},
                  assigned_fields |-> st.assigned_fields \cup {m.field_type}])
          ELSE st

RECURSIVE AssignLoop(_, _)
\* the loop over the sorted matches
AssignLoop(ms, st) ==
  IF ms = <<>> THEN st
  ELSE LET m == Head(ms)
       IN IF MayAssign(m, st)
          THEN AssignLoop(Tail(ms),
                 [suggestions |-> (m.field_type :> m.column) @@ st.suggestions,
                  assigned_columns |-> st.assigned_columns \cup {m.column},
                  assigned_fields |-> st.assigned_fields \cup {m.field_type}])
          ELSE AssignLoop(Tail(ms), st)

\* the mapping after the scoring pass
ScoringPass(df) ==
  AssignLoop(SortMatches(Matches(df), <<>>),
             [suggestions |-> <<>>, assigned_columns |-> {}, assigned_fields |-> {}]).suggestions

\* whether _detect_date_columns lists the column: the share of the first 10
\* non-null values that convert to dates exceeds 0.7
IsDateColumn(col) ==
  \/ col.dtype = "datetime64"
  \/ LET sample == Head_n(DropNa(col.cells), 10)
         ok == Cardinality({i \in 1..Len(sample) : ToDatetime(sample[i], col.dtype) # ""})
     IN Len(sample) > 0 /\ 10 * ok > 7 * Len(sample)

\* _detect_date_columns: the names of the date columns in table order
detect_date_columns(df) ==
  LET cols == SelectSeq(df, IsDateColumn)
  IN [i \in 1..Len(cols) |-> cols[i].name]

\* the date post-pass of auto_detect
DatePostPass(sugg, date_columns) ==
  IF date_columns # <<>> /\ "order_date" \notin DOMAIN sugg
  THEN ("order_date" :> date_columns[1]) @@ sugg
  ELSE sugg

\* auto_detect: the mapping after the scoring pass, and the one returned
auto_detect_steps(df) ==
  LET scored == ScoringPass(df)
  IN [scoring |-> scored, suggestions |-> DatePostPass(scored, detect_date_columns(df))]

auto_detect(df) == auto_detect_steps(df).suggestions

\* a variant of the required fields without total_amount (sensitivity of C13)
required_fields_ids == <<"transaction_id", "order_date">>

required_fields == <<"transaction_id", "order_date", "total_amount">>

\* pd.to_numeric(series, errors='raise') raises: a column of texts with a
\* value that is not the text of a number (a missing value converts to NaN)
ToNumericRaises(col) ==
  /\ col.dtype = "object"
  /\ \E r \in 1..Len(col.cells) :
       ~IsNull(col.cells[r]) /\ IsNull(ToNumeric(col.cells[r], col.dtype))

\* a variant of validate_mapping in which a warning makes the mapping invalid
\* (sensitivity of C12 and C15 to warnings leaving valid alone)
validate_mapping_strict(df, m) ==
  LET missing_required == SelectSeq(required_fields, LAMBDA f : f \notin DOMAIN m)
      stale == {f \in DOMAIN m : ~HasColumn(df, m[f])}
      warns == /\ "total_amount" \in DOMAIN m
               /\ HasColumn(df, m["total_amount"])
               /\ ToNumericRaises(Col(df, m["total_amount"]))
  IN [valid |-> missing_required = <<>> /\ stale = {} /\ ~warns,
      errors |-> [c \in {m[f] : f \in stale} |-> Cardinality({f \in stale : m[f] = c})],
      warnings |-> IF warns THEN <<m["total_amount"]>> ELSE <<>>,
      missing_required |-> missing_required]

\* a variant of validate_mapping that looks up the columns of the required
\* fields only (sensitivity of C14 to the optional fields)
validate_mapping_required_only(df, m) ==
  LET missing_required == SelectSeq(required_fields, LAMBDA f : f \notin DOMAIN m)
      stale == {f \in DOMAIN m \cap Range(required_fields) : ~HasColumn(df, m[f])}
      warns == /\ "total_amount" \in DOMAIN m
               /\ HasColumn(df, m["total_amount"])
               /\ ToNumericRaises(Col(df, m["total_amount"]))
  IN [valid |-> missing_required = <<>> /\ stale = {},
      errors |-> [c \in {m[f] : f \in stale} |-> Cardinality({f \in stale : m[f] = c})],
      warnings |-> IF warns THEN <<m["total_amount"]>> ELSE <<>>,
      missing_required |-> missing_required]

\* validate_mapping.  errors holds one message per mapping entry whose column
\* is not in the table, each naming the column: given here as the number of
\* messages per column name (their order is the mapping's insertion order).
\* warnings holds the column the message names.
validate_mapping(df, m) ==
  LET missing_required == SelectSeq(required_fields, LAMBDA f : f \notin DOMAIN m)
      stale == {f \in DOMAIN m : ~HasColumn(df, m[f])}
      errors == [c \in {m[f] : f \in stale} |-> Cardinality({f \in stale : m[f] = c})]
      warns == /\ "total_amount" \in DOMAIN m
               /\ HasColumn(df, m["total_amount"])
               /\ ToNumericRaises(Col(df, m["total_amount"]))
  IN [valid |-> missing_required = <<>> /\ stale = {},
      errors |-> errors,
      warnings |-> IF warns THEN <<m["total_amount"]>> ELSE <<>>,
      missing_required |-> missing_required]

-----------------------------------------------------------------------------
(* modules/detector.py: StoreTypeDetector                                  *)
(* Scores are multiples of 0.5; the model counts them in halves (a score   *)
(* of 2 is 4 halves), and a confidence is the exact fraction num / den.    *)

\* the keys of STORE_PATTERNS, in declaration order
StoreTypes ==
  <<"fashion", "electronics", "beauty", "home_garden", "digital", "subscription",
    "handmade", "food">>

\* the closed vocabulary of store categories
StoreCategories == Range(StoreTypes) \cup {"general"}

STORE_PATTERNS ==
  [fashion |->
     [column_keywords |-> <<"size", "color", "variant", "dress", "shirt", "pants",
                            "fashion", "clothing">>,
      value_patterns |-> <<"XS|S|M|L|XL|XXL", "red|blue|green|black|white">>,
      category_keywords |-> <<"clothing", "apparel", "wear", "fashion">>],
   electronics |->
     [column_keywords |-> <<"model", "spec", "warranty", "tech", "gadget", "device">>,
      value_patterns |-> <<"\\d+GB", "\\d+MP", "\\d+\"", "\\d+GHz">>,
      category_keywords |-> <<"electronics", "tech", "gadgets", "devices">>],
   beauty |->
     [column_keywords |-> <<"skin", "type", "ml", "oz", "ingredient", "beauty", "cosmetic">>,
      value_patterns |-> <<"\\d+ml", "\\d+oz", "dry|oily|normal|combination">>,
      category_keywords |-> <<"beauty", "cosmetics", "skincare", "makeup">>],
   home_garden |->
     [column_keywords |-> <<"room", "size", "material", "dimension", "home", "garden">>,
      value_patterns |-> <<"\\d+x\\d+x\\d+", "wood|metal|plastic|fabric">>,
      category_keywords |-> <<"home", "garden", "furniture", "decor">>],
   digital |->
     [column_keywords |-> <<"license", "download", "digital", "file", "format">>,
      value_patterns |-> <<"PDF|MP3|MP4|ZIP", "\\d+\\.\\d+MB", "\\d+\\.\\d+GB">>,
      category_keywords |-> <<"digital", "download", "software", "ebook">>],
   subscription |->
     [column_keywords |-> <<"subscription", "renewal", "plan", "monthly", "yearly">>,
      value_patterns |-> <<"monthly|yearly|quarterly", "plan A|plan B|plan C">>,
      category_keywords |-> <<"subscription", "membership", "plan">>],
   handmade |->
     [column_keywords |-> <<"handmade", "craft", "artisan", "material", "unique">>,
      value_patterns |-> <<"handmade|handcrafted", "limited edition">>,
      category_keywords |-> <<"handmade", "craft", "artisan", "unique">>],
   food |->
     [column_keywords |-> <<"expiry", "ingredient", "weight", "nutrition", "food">>,
      value_patterns |-> <<"\\d+g", "\\d+kg", "\\d+calories", "organic|gluten-free">>,
      category_keywords |-> <<"food", "beverage", "snack", "grocery">>]]

\* series.astype(str) on one cell
AsStr(c, dtype) ==
  IF IsNull(c) THEN "nan"
  ELSE IF dtype = "float64" THEN c \o ".0" ELSE c

\* the keys of the scores dict
ScoreKeys == Range(StoreTypes)

\* a variant of column-name scoring that adds 2 once per store type, however
\* many of its keywords are found (sensitivity of C10 to per-keyword counting)
ColumnNameScoreOnce(df, store_type) ==
  LET column_names == [i \in 1..Len(df) |-> ToLower(df[i].name)]
      kws == STORE_PATTERNS[store_type].column_keywords
  IN IF \E k \in 1..Len(kws) :
          \E i \in 1..Len(column_names) : Contains(column_names[i], kws[k])
     THEN 4 ELSE 0

\* column-name scoring: 2 (4 halves) for every keyword some lower-cased
\* column name contains
ColumnNameScore(df, store_type) ==
  LET column_names == [i \in 1..Len(df) |-> ToLower(df[i].name)]
      kws == STORE_PATTERNS[store_type].column_keywords
  IN 4 * Cardinality({k \in 1..Len(kws) :
                        \E i \in 1..Len(column_names) : Contains(column_names[i], kws[k])})

\* column_values.str.contains(pattern, na=False).sum() for one column of
\* the sample: the values are lower-cased, the pattern is matched as written
PatternMatches(col, pattern) ==
  LET sample == Head_n(col.cells, 20)
  IN Cardinality({r \in 1..Len(sample) :
                    Search(pattern, ToLower(AsStr(sample[r], col.dtype)), FALSE)})

RECURSIVE SumOver(_, _)
\* the sum of f over the finite set S
SumOver(f, S) ==
  IF S = {} THEN 0 ELSE LET x == CHOOSE y \in S : TRUE IN f[x] + SumOver(f, S \ {x})

\* value-sample scoring: 0.5 (1 half) per matching value, over the columns
\* of dtype object and the patterns of the store type
ValueScore(df, store_type) ==
  LET pats == STORE_PATTERNS[store_type].value_patterns
      pairs == {<<i, k>> \in (1..Len(df)) \X (1..Len(pats)) : df[i].dtype = "object"}
      count == [pr \in pairs |-> PatternMatches(df[pr[1]], pats[pr[2]])]
  IN SumOver(count, pairs)

\* the lower-cased names that contain 'categor' or 'type', in table order
CategoryColumns(df) ==
  SelectSeq([i \in 1..Len(df) |-> ToLower(df[i].name)],
            LAMBDA n : Contains(n, "categor") \/ Contains(n, "type"))

\* category-column scoring: the first category column only, and only when
\* its lower-cased name is a column of the table; 3 (6 halves) per keyword
\* some value contains
CategoryScore(df, store_type) ==
  LET cat_cols == Head_n(CategoryColumns(df), 1)
      kws == STORE_PATTERNS[store_type].category_keywords
  IN IF cat_cols # <<>> /\ HasColumn(df, cat_cols[1])
     THEN LET col == Col(df, cat_cols[1])
              present == DropNa(col.cells)
              categories == {ToLower(AsStr(present[r], col.dtype)) : r \in 1..Len(present)}
          IN 6 * Cardinality({k \in 1..Len(kws) : \E cat \in categories : Contains(cat, kws[k])})
     ELSE 0

\* the scores dict at the end of the three scoring passes, in halves
RawScores(df) ==
  [st \in ScoreKeys |->
     ColumnNameScore(df, st) + ValueScore(df, st) + CategoryScore(df, st)]

\* a variant of the maximum that keeps the last of several maximal keys
\* (sensitivity of C8 to the tie-break)
MaxKeyLast(scores) ==
  LET best == CHOOSE i \in 1..Len(StoreTypes) :
                /\ \A j \in 1..Len(StoreTypes) : scores[StoreTypes[j]] <= scores[StoreTypes[i]]
                /\ \A j \in (i + 1)..Len(StoreTypes) : scores[StoreTypes[j]] < scores[StoreTypes[i]]
  IN StoreTypes[best]

\* max(scores.items(), key=...): the first key, in declaration order, whose
\* score no other key exceeds
MaxKey(scores) ==
  LET best == CHOOSE i \in 1..Len(StoreTypes) :
                /\ \A j \in 1..Len(StoreTypes) : scores[StoreTypes[j]] <= scores[StoreTypes[i]]
                /\ \A j \in 1..(i - 1) : scores[StoreTypes[j]] < scores[StoreTypes[i]]
  IN StoreTypes[best]

\* not any(scores.values())
NoSignal(scores) == \A st \in DOMAIN scores : scores[st] = 0

\* a variant of detect that normalises by the largest score instead of the
\* sum of the scores (sensitivity of C6 to the normalisation)
detect_by_max(df) ==
  LET scores == RawScores(df)
      top == scores[MaxKey(scores)]
  IN IF NoSignal(scores)
     THEN [category |-> "general",
           confidence |-> [st \in DOMAIN scores |-> [num |-> scores[st], den |-> 2]],
           scores |-> scores]
     ELSE [category |-> MaxKey(scores),
           confidence |-> [st \in DOMAIN scores |->
                             [num |-> scores[st] * 100, den |-> top]],
           scores |-> scores]

\* a variant of detect without the early return for an all-zero scores dict
\* (sensitivity of C9 to the fallback)
detect_no_fallback(df) ==
  LET scores == RawScores(df)
      total_score == SumOver(scores, DOMAIN scores)
  IN [category |-> MaxKey(scores),
      confidence |-> [st \in DOMAIN scores |->
                        IF total_score > 0
                        THEN [num |-> scores[st] * 100, den |-> total_score]
                        ELSE [num |-> 0, den |-> 1]],
      scores |-> scores]

\* detect: the category, the confidence map and (for reference) the raw scores.
\* Without signal the scores dict itself is returned as the confidence map.
detect(df) ==
  LET scores == RawScores(df)
      total_score == SumOver(scores, DOMAIN scores)
  IN IF NoSignal(scores)
     THEN [category |-> "general",
           confidence |-> [st \in DOMAIN scores |-> [num |-> scores[st], den |-> 2]],
           scores |-> scores]
     ELSE [category |-> MaxKey(scores),
           confidence |-> [st \in DOMAIN scores |->
                             IF total_score > 0
                             THEN [num |-> scores[st] * 100, den |-> total_score]
                             ELSE [num |-> 0, den |-> 1]],
           scores |-> scores]

\* the dict display_names of get_store_type_display_name.  A label is written
\* in ASCII: the leading emoji is left out and the Arabic text is romanised.
display_names ==
  [ar |-> [fashion      |-> "matajir al-azya",
           electronics  |-> "matajir al-iliktruniyat",
           beauty       |-> "matajir al-tajmil",
           home_garden  |-> "matajir al-manzil wal-hadiqa",
           digital      |-> "matajir al-muntajat al-raqamiya",
           subscription |-> "matajir al-ishtirakat",
           handmade     |-> "matajir al-muntajat al-yadawiya",
           food         |-> "matajir al-atima",
           general      |-> "matjar amm"],
   en |-> [fashion      |-> "Fashion Stores",
           electronics  |-> "Electronics Stores",
           beauty       |-> "Beauty Stores",
           home_garden  |-> "Home & Garden Stores",
           digital      |-> "Digital Products Stores",
           subscription |-> "Subscription Stores",
           handmade     |-> "Handmade Products Stores",
           food         |-> "Food Stores",
           general      |-> "General Store"]]

\* the empty dict {}
EmptyDict == [k \in {} |-> ""]

\* d.get(key, default)
DictGet(d, key, default) == IF key \in DOMAIN d THEN d[key] ELSE default

\* a variant that shows the label of the general store for a type it does
\* not know (sensitivity of C19 to the fallback)
get_store_type_display_name_general(store_type, language) ==
  LET names == DictGet(display_names, language, EmptyDict)
  IN DictGet(names, store_type, DictGet(names, "general", store_type))

\* get_store_type_display_name(store_type, language)
get_store_type_display_name(store_type, language) ==
  DictGet(DictGet(display_names, language, EmptyDict), store_type, store_type)

-----------------------------------------------------------------------------
(* Exact arithmetic for the analyzer's figures: a number is the fraction   *)
(* num / den in lowest terms with den > 0.                                 *)

Abs(x) == IF x < 0 THEN 0 - x ELSE x

RECURSIVE GCD(_, _)
GCD(a, b) == IF b = 0 THEN a ELSE GCD(b, a % b)

\* n / d; a division by zero (NaN or an infinity in floating point) is kept
\* as a fraction of denominator 0
Rat(n, d) ==
  LET g == GCD(Abs(n), Abs(d))
      sgn == IF d < 0 THEN 0 - 1 ELSE 1
  IN IF d = 0 THEN [num |-> n, den |-> 0]
     ELSE [num |-> (sgn * n) \div g, den |-> (sgn * d) \div g]

RInt(n) == [num |-> n, den |-> 1]
RMul(a, b) == Rat(a.num * b.num, a.den * b.den)
RDiv(a, b) == Rat(a.num * b.den, a.den * b.num)
RSub(a, b) == Rat(a.num * b.den - b.num * a.den, a.den * b.den)
RPos(a) == a.num > 0

RECURSIVE SumCells(_)
\* series.sum() of a numeric column: missing values are skipped
SumCells(cells) ==
  IF cells = <<>> THEN 0
  ELSE (IF IsNull(Head(cells)) THEN 0 ELSE IntOf(Head(cells))) + SumCells(Tail(cells))

\* days since 1970-01-01 of the date written YYYY-MM-DD
DayNumber(s) ==
  LET y0 == ParseNat(SubSeq(s, 1, 4), 0)
      m == ParseNat(SubSeq(s, 6, 7), 0)
      d == ParseNat(SubSeq(s, 9, 10), 0)
      y == IF m <= 2 THEN y0 - 1 ELSE y0
      era == y \div 400
      yoe == y - era * 400
      mp == (m + 9) % 12
      doy == (153 * mp + 2) \div 5 + d - 1
      doe == yoe * 365 + yoe \div 4 - yoe \div 100 + doy
  IN era * 146097 + doe - 719468

DayNames == <<"Monday", "Tuesday", "Wednesday", "Thursday", "Friday", "Saturday", "Sunday">>

\* series.dt.day_name() on one cell
DayName(s) == IF IsNull(s) THEN "" ELSE DayNames[((DayNumber(s) + 3) % 7) + 1]

\* series.dt.month on one cell, as text
MonthOf(s) == IF IsNull(s) THEN "" ELSE SubSeq(s, IF Ch(s, 6) = "0" THEN 7 ELSE 6, 7)

-----------------------------------------------------------------------------
(* modules/analyzer.py: EcommerceAnalyzer                                  *)

\* dataframe[name] = cells: the column is replaced in place, or appended
SetColumn(df, name, dtype, cells) ==
  LET c == [name |-> name, dtype |-> dtype, cells |-> cells]
  IN IF HasColumn(df, name)
     THEN [i \in 1..Len(df) |-> IF df[i].name = name THEN c ELSE df[i]]
     ELSE Append(df, c)

NumericDtype(cells) == IF \E i \in 1..Len(cells) : IsNull(cells[i]) THEN "float64" ELSE "int64"

\* dataframe[col] = pd.to_datetime(dataframe[col], errors='coerce')
CoerceDate(df, name) ==
  LET col == Col(df, name)
  IN SetColumn(df, name, "datetime64",
               [i \in 1..Len(col.cells) |-> ToDatetime(col.cells[i], col.dtype)])

\* dataframe[col] = pd.to_numeric(dataframe[col], errors='coerce')
CoerceNumeric(df, name) ==
  LET col == Col(df, name)
      cells == [i \in 1..Len(col.cells) |-> ToNumeric(col.cells[i], col.dtype)]
  IN SetColumn(df, name, NumericDtype(cells), cells)

numeric_fields == <<"quantity", "unit_price", "total_amount", "discount_amount">>

RECURSIVE CoerceNumericFields(_, _, _)
\* the loop of _clean_data over numeric_fields
CoerceNumericFields(df, m, fields) ==
  IF fields = <<>> THEN df
  ELSE CoerceNumericFields(
         IF Head(fields) \in DOMAIN m THEN CoerceNumeric(df, m[Head(fields)]) ELSE df,
         m, Tail(fields))

\* _clean_data: the cleaned self.dataframe.  self.mapping is left as it is.
clean_data(df, m) ==
  CoerceNumericFields(
    IF "order_date" \in DOMAIN m THEN CoerceDate(df, m["order_date"]) ELSE df,
    m, numeric_fields)

\* series.nunique(): the number of distinct non-null values
NUnique(cells) == Cardinality({cells[i] : i \in 1..Len(cells)} \ {""})

\* _analyze_store_profile (without the analysis_date stamp)
analyze_store_profile(df, m, cfg) ==
  LET dates == IF "order_date" \in DOMAIN m THEN DropNa(Col(df, m["order_date"]).cells) ELSE <<>>
      days == {dates[i] : i \in 1..Len(dates)}
      min_date == CHOOSE a \in days : \A b \in days : DayNumber(a) <= DayNumber(b)
      max_date == CHOOSE a \in days : \A b \in days : DayNumber(b) <= DayNumber(a)
      base == [store_type |-> cfg.store_type,
               total_orders |-> NumRows(df),
               date_range |-> IF Len(dates) > 0
                              THEN [start |-> min_date, end |-> max_date,
                                    days |-> DayNumber(max_date) - DayNumber(min_date)]
                              ELSE <<>>,
               active_days |-> IF Len(dates) > 0 THEN Cardinality(days) ELSE 0]
      customers == IF "customer_id" \in DOMAIN m
                   THEN "unique_customers" :> NUnique(Col(df, m["customer_id"]).cells)
                   ELSE <<>>
      products == IF "product_id" \in DOMAIN m
                  THEN "unique_products" :> NUnique(Col(df, m["product_id"]).cells)
                  ELSE <<>>
  IN base @@ customers @@ products

\* self.results['store_profile']['active_days'] in _analyze_sales_performance:
\* self.results is the dict the previous call left (analyze assigns it only
\* after every section is computed); the lookup fails on a dict without the key
ActiveDaysLookup(results) ==
  IF "store_profile" \in DOMAIN results
  THEN [raised |-> FALSE, value |-> results["store_profile"].active_days]
  ELSE [raised |-> TRUE, value |-> 0]

\* a variant of _analyze_sales_performance that divides by the row count
\* without testing it (sensitivity of C17 to the guard of line 141)
analyze_sales_performance_unguarded(df, m, results) ==
  LET has_amount == "total_amount" \in DOMAIN m
      revenue == IF has_amount THEN SumCells(Col(df, m["total_amount"]).cells) ELSE 0
      total_revenue == RInt(revenue)
      aov == IF has_amount THEN Rat(revenue, NumRows(df)) ELSE RInt(0)
      daily == "order_date" \in DOMAIN m /\ RPos(total_revenue)
      look == ActiveDaysLookup(results)
      active_days == look.value
  IN IF daily /\ look.raised
     THEN [raised |-> TRUE, value |-> <<>>]
     ELSE [raised |-> FALSE,
           value |-> [total_revenue |-> total_revenue,
                      average_order_value |-> aov,
                      orders_per_day |-> IF daily /\ active_days > 0
                                         THEN Rat(NumRows(df), active_days) ELSE RInt(0),
                      revenue_per_day |-> IF daily /\ active_days > 0
                                          THEN Rat(revenue, active_days) ELSE RInt(0)]]

\* _analyze_sales_performance: [raised, value]
analyze_sales_performance(df, m, results) ==
  LET has_amount == "total_amount" \in DOMAIN m
      revenue == IF has_amount THEN SumCells(Col(df, m["total_amount"]).cells) ELSE 0
      total_revenue == RInt(revenue)
      aov == IF has_amount /\ NumRows(df) > 0 THEN Rat(revenue, NumRows(df)) ELSE RInt(0)
      daily == "order_date" \in DOMAIN m /\ RPos(total_revenue)
      look == ActiveDaysLookup(results)
      active_days == look.value
  IN IF daily /\ look.raised
     THEN [raised |-> TRUE, value |-> <<>>]
     ELSE [raised |-> FALSE,
           value |-> [total_revenue |-> total_revenue,
                      average_order_value |-> aov,
                      orders_per_day |-> IF daily /\ active_days > 0
                                         THEN Rat(NumRows(df), active_days) ELSE RInt(0),
                      revenue_per_day |-> IF daily /\ active_days > 0
                                          THEN Rat(revenue, active_days) ELSE RInt(0)]]

\* dataframe.groupby(key)[amount].sum().to_dict(): rows with a missing key
\* are dropped, missing amounts count as 0
GroupSums(keys, amounts) ==
  LET ks == {keys[i] : i \in 1..Len(keys)} \ {""}
  IN [k \in ks |->
        SumCells([i \in 1..Len(keys) |-> IF keys[i] = k THEN amounts[i] ELSE ""])]

\* series.value_counts().to_dict(): how often each non-null value occurs
ValueCounts(cells) ==
  [v \in {cells[i] : i \in 1..Len(cells)} \ {""} |->
     Cardinality({i \in 1..Len(cells) : cells[i] = v})]

RECURSIVE SortAsc(_)
\* the values of a bag of integers (a function key -> integer), ascending
SortAsc(sums) ==
  IF DOMAIN sums = {} THEN <<>>
  ELSE LET k == CHOOSE a \in DOMAIN sums : \A b \in DOMAIN sums : sums[a] <= sums[b]
       IN <<sums[k]>> \o SortAsc([x \in DOMAIN sums \ {k} |-> sums[x]])

\* series.quantile(tenths / 10) with linear interpolation between the two
\* nearest order statistics; only called on a non-empty series
Quantile(sums, tenths) ==
  LET vs == SortAsc(sums)
      pos == (Len(vs) - 1) * tenths
      lo == pos \div 10 + 1
      hi == IF lo < Len(vs) THEN lo + 1 ELSE lo
  IN Rat(vs[lo] * 10 + (vs[hi] - vs[lo]) * (pos % 10), 10)

\* a variant of the comparison that leaves out equality (sensitivity of C30
\* to the bands being closed below)
AtLeastStrict(x, q) == x * q.den > q.num

\* x >= q and x < q for an integer x and a fraction q
AtLeast(x, q) == x * q.den >= q.num
Below(x, q) == x * q.den < q.num

\* the customer_segments entry: customers counted by the band of the 0.4, 0.7
\* and 0.9 quantiles their revenue falls in (a quantile of no customers is NaN
\* and every comparison with it is false)
customer_segments(customer_revenue) ==
  LET ids == DOMAIN customer_revenue
      some == ids # {}
      q90 == Quantile(customer_revenue, 9)
      q70 == Quantile(customer_revenue, 7)
      q40 == Quantile(customer_revenue, 4)
      Count(P(_)) == Cardinality({c \in ids : some /\ P(customer_revenue[c])})
  IN [vip |-> Count(LAMBDA x : AtLeast(x, q90)),
      high_value |-> Count(LAMBDA x : AtLeast(x, q70) /\ Below(x, q90)),
      medium_value |-> Count(LAMBDA x : AtLeast(x, q40) /\ Below(x, q70)),
      low_value |-> Count(LAMBDA x : Below(x, q40))]

\* _analyze_customers
analyze_customers(df, m) ==
  LET cells == IF "customer_id" \in DOMAIN m THEN Col(df, m["customer_id"]).cells ELSE <<>>
      customer_counts == ValueCounts(cells)
      total_customers == NUnique(cells)
      repeat_customers == Cardinality({c \in DOMAIN customer_counts : customer_counts[c] > 1})
  IN [total_customers |-> total_customers,
      repeat_customers |-> repeat_customers,
      repeat_rate |-> IF total_customers > 0
                      THEN Rat(repeat_customers * 100, total_customers) ELSE RInt(0),
      customer_segments |->
        IF "customer_id" \in DOMAIN m /\ "total_amount" \in DOMAIN m
        THEN customer_segments(GroupSums(cells, Col(df, m["total_amount"]).cells))
        ELSE <<>>]

\* a variant of the lookup without the default: a store type that is not a
\* key of cost_ratios costs nothing (sensitivity of C25 to the default)
CostRatioPctNoDefault(store_type) ==
  CASE store_type = "fashion" -> 35
    [] store_type = "electronics" -> 65
    [] store_type = "beauty" -> 30
    [] store_type = "digital" -> 10
    [] store_type = "subscription" -> 40
    [] store_type = "handmade" -> 45
    [] store_type = "food" -> 55
    [] store_type = "general" -> 50
    [] OTHER -> 0

\* cost_ratios.get(store_type, 0.50), in percent
CostRatioPct(store_type) ==
  CASE store_type = "fashion" -> 35
    [] store_type = "electronics" -> 65
    [] store_type = "beauty" -> 30
    [] store_type = "digital" -> 10
    [] store_type = "subscription" -> 40
    [] store_type = "handmade" -> 45
    [] store_type = "food" -> 55
    [] store_type = "general" -> 50
    [] OTHER -> 50

\* _analyze_financials: the profitability entry ({} when total_amount is unmapped)
analyze_financials(df, m, cfg) ==
  IF "total_amount" \in DOMAIN m
  THEN LET total_revenue == RInt(SumCells(Col(df, m["total_amount"]).cells))
           estimated_cogs == RMul(total_revenue, Rat(CostRatioPct(cfg.store_type), 100))
           gross_profit == RSub(total_revenue, estimated_cogs)
           gross_margin == IF RPos(total_revenue)
                           THEN RMul(RDiv(gross_profit, total_revenue), RInt(100))
                           ELSE RInt(0)
       IN [revenue_breakdown |-> <<>>, estimated_costs |-> <<>>, financial_health |-> <<>>,
           profitability |->
             [total_revenue |-> total_revenue,
              estimated_cogs |-> estimated_cogs,
              gross_profit |-> gross_profit,
              gross_margin |-> gross_margin,
              net_profit_estimate |-> RMul(gross_profit, Rat(7, 10))]]
  ELSE [revenue_breakdown |-> <<>>, estimated_costs |-> <<>>, financial_health |-> <<>>,
        profitability |-> <<>>]

RECURSIVE NLargest(_, _)
\* series.nlargest(n).index.tolist() over month keys: largest sums first, of
\* equal sums the smaller month first
NLargest(sums, n) ==
  IF n = 0 \/ DOMAIN sums = {} THEN <<>>
  ELSE LET k == CHOOSE a \in DOMAIN sums :
                  \A b \in DOMAIN sums :
                    \/ sums[b] < sums[a]
                    \/ sums[b] = sums[a] /\ ParseNat(a, 0) <= ParseNat(b, 0)
       IN <<k>> \o NLargest([x \in DOMAIN sums \ {k} |-> sums[x]], n - 1)

SeasonalityRuns(m) == "order_date" \in DOMAIN m /\ "total_amount" \in DOMAIN m

\* _analyze_seasonality: the section
analyze_seasonality(df, m) ==
  IF SeasonalityRuns(m)
  THEN LET dates == Col(df, m["order_date"]).cells
           amounts == Col(df, m["total_amount"]).cells
           monthly_sales == GroupSums([i \in 1..Len(dates) |-> MonthOf(dates[i])], amounts)
       IN [monthly_trends |-> monthly_sales,
           weekly_patterns |-> GroupSums([i \in 1..Len(dates) |-> DayName(dates[i])], amounts),
           peak_periods |-> NLargest(monthly_sales, 3)]
  ELSE [monthly_trends |-> <<>>, weekly_patterns |-> <<>>, peak_periods |-> <<>>]

\* _analyze_seasonality: self.dataframe with the month and day_of_week
\* columns it adds
SeasonalityColumns(df, m) ==
  IF SeasonalityRuns(m)
  THEN LET dates == Col(df, m["order_date"]).cells
           months == [i \in 1..Len(dates) |-> MonthOf(dates[i])]
           withMonth == SetColumn(df, "month",
                                  IF NumericDtype(months) = "int64" THEN "int32" ELSE "float64",
                                  months)
       IN SetColumn(withMonth, "day_of_week", "object",
                    [i \in 1..Len(dates) |-> DayName(dates[i])])
  ELSE df

\* table.get(store_type, table['general']) over a table of recommendations:
\* the key whose entry is returned (the entries are fixed lists of texts)
EntryFor(store_type, keys) == IF store_type \in keys THEN store_type ELSE "general"

\* _analyze_products; top_products is at most the 10 best-selling names (the
\* tables analysed here have fewer), given here without their order
analyze_products(df, m, cfg) ==
  LET product_sales ==
        IF "product_name" \in DOMAIN m /\ "quantity" \in DOMAIN m
        THEN GroupSums(Col(df, m["product_name"]).cells, Col(df, m["quantity"]).cells)
        ELSE <<>>
  IN [total_products |-> IF "product_id" \in DOMAIN m
                         THEN NUnique(Col(df, m["product_id"]).cells) ELSE 0,
      top_products |-> {[product |-> n, quantity |-> product_sales[n]] :
                          n \in DOMAIN product_sales},
      category_distribution |-> IF "product_category" \in DOMAIN m
                                THEN ValueCounts(Col(df, m["product_category"]).cells)
                                ELSE <<>>,
      product_recommendations |->
        EntryFor(cfg.store_type, {"fashion", "electronics", "beauty", "general"})]

\* _analyze_marketing
analyze_marketing(df, m, cfg) ==
  [channels |-> IF "traffic_source" \in DOMAIN m /\ HasColumn(df, m["traffic_source"])
                THEN ValueCounts(Col(df, m["traffic_source"]).cells) ELSE <<>>,
   conversion_metrics |-> <<>>,
   marketing_recommendations |->
     EntryFor(cfg.store_type, {"fashion", "electronics", "general"})]

\* turnover_rates.get(store_type, 5.0), in tenths
TurnoverTenths(store_type) ==
  CASE store_type = "fashion" -> 45
    [] store_type = "electronics" -> 62
    [] store_type = "beauty" -> 38
    [] store_type = "food" -> 120
    [] OTHER -> 50

\* _analyze_inventory (the recommendations are one fixed list of 4 texts)
analyze_inventory(cfg) ==
  [stock_status |-> <<>>,
   turnover_estimate |-> Rat(TurnoverTenths(cfg.store_type), 10),
   inventory_recommendations |-> 4]

\* _get_benchmarks: benchmarks.get(store_type, benchmarks['general'])
get_benchmarks(cfg) ==
  LET benchmarks ==
        [fashion |-> [aov |-> Rat(8520, 100), conversion_rate |-> Rat(18, 10),
                      repeat_rate |-> Rat(285, 10), cart_abandonment |-> Rat(688, 10)],
         electronics |-> [aov |-> Rat(12050, 100), conversion_rate |-> Rat(15, 10),
                          repeat_rate |-> Rat(223, 10), cart_abandonment |-> Rat(713, 10)],
         beauty |-> [aov |-> Rat(4580, 100), conversion_rate |-> Rat(21, 10),
                     repeat_rate |-> Rat(352, 10), cart_abandonment |-> Rat(674, 10)],
         general |-> [aov |-> Rat(7500, 100), conversion_rate |-> Rat(18, 10),
                      repeat_rate |-> Rat(250, 10), cart_abandonment |-> Rat(696, 10)]]
  IN benchmarks[EntryFor(cfg.store_type, DOMAIN benchmarks)]

\* _generate_recommendations: three fixed lists of 4 texts each
generate_recommendations == [immediate |-> 4, short_term |-> 4, long_term |-> 4]

\* the (missing, total) cell counts up to 40 cells for which the double
\* (1 - missing / total) * 100 lies just below the whole number it stands for,
\* so that int() yields one less than the exact quotient
TruncatedShort ==
  {<<4, 5>>, <<8, 10>>, <<9, 10>>, <<12, 15>>, <<11, 20>>, <<16, 20>>, <<18, 20>>,
   <<14, 25>>, <<17, 25>>, <<20, 25>>, <<23, 25>>, <<24, 30>>, <<27, 30>>, <<28, 35>>,
   <<22, 40>>, <<32, 40>>, <<36, 40>>}

\* int((1 - (missing_cells / total_cells)) * 100) in double arithmetic
CompletenessPct(missing_cells, total_cells) ==
  ((total_cells - missing_cells) * 100) \div total_cells
  - (IF <<missing_cells, total_cells>> \in TruncatedShort THEN 1 ELSE 0)

\* int(score * 0.7) in double arithmetic, for a score in 0..100: the double
\* 90 * 0.7 lies just below 63
OverallPct(score) == IF score = 90 THEN 62 ELSE (score * 7) \div 10

\* _assess_data_quality, on self.dataframe as the seasonality section left it;
\* int() truncates, and an issue is reported by its count of negative amounts
assess_data_quality(df, m) ==
  LET total_cells == NumRows(df) * Len(df)
      missing_cells ==
        Cardinality({<<c, r>> \in (1..Len(df)) \X (1..NumRows(df)) : IsNull(df[c].cells[r])})
      completeness_score ==
        IF total_cells > 0 THEN CompletenessPct(missing_cells, total_cells) ELSE 0
      amounts == IF "total_amount" \in DOMAIN m THEN Col(df, m["total_amount"]).cells ELSE <<>>
      negative_amounts ==
        Cardinality({r \in 1..Len(amounts) : ~IsNull(amounts[r]) /\ IntOf(amounts[r]) < 0})
  IN [completeness_score |-> completeness_score,
      accuracy_score |-> 0,
      consistency_score |-> 0,
      overall_score |-> OverallPct(completeness_score),
      issues |-> IF negative_amounts > 0 THEN <<negative_amounts>> ELSE <<>>]

\* a variant of the copy in which self.dataframe is the caller's frame itself
\* (sensitivity of C16 to the copy)
dataframe_alias(df) == [frame |-> df, shared |-> TRUE]

\* dataframe.copy(): a new frame with the same columns, which shares nothing
\* with the caller's frame
dataframe_copy(df) == [frame |-> df, shared |-> FALSE]

\* analyze(dataframe, mapping) on an analyzer whose self.results is `results`:
\* how the call ends, the result it returns, and self.dataframe, self.mapping
\* and self.results as the call leaves them.  The sections are computed in
\* the order of the dict display, so a call that raises in the sales section
\* leaves the cleaned table and the previous results behind.  caller is the
\* caller's frame as the call leaves it: what was done to self.dataframe when
\* the two are one object, the frame as passed otherwise.  self.mapping is
\* the caller's dict itself.
analyze(df, m, cfg, results) ==
  LET own == dataframe_copy(df)
      cleaned == clean_data(own.frame, m)
      sales == analyze_sales_performance(cleaned, m, results)
      seasonal == SeasonalityColumns(cleaned, m)
      new_results ==
        [store_profile |-> analyze_store_profile(cleaned, m, cfg),
         sales_performance |-> sales.value,
         customer_analysis |-> analyze_customers(cleaned, m),
         product_analysis |-> analyze_products(cleaned, m, cfg),
         financial_analysis |-> analyze_financials(cleaned, m, cfg),
         marketing_analysis |-> analyze_marketing(cleaned, m, cfg),
         inventory_analysis |-> analyze_inventory(cfg),
         seasonal_analysis |-> analyze_seasonality(cleaned, m),
         benchmarks |-> get_benchmarks(cfg),
         recommendations |-> generate_recommendations,
         data_quality |-> assess_data_quality(seasonal, m)]
  IN IF sales.raised
     THEN [outcome |-> [raised |-> TRUE, result |-> <<>>],
           dataframe |-> cleaned, mapping |-> m, results |-> results,
           caller |-> IF own.shared THEN cleaned ELSE df]
     ELSE [outcome |-> [raised |-> FALSE, result |-> new_results],
           dataframe |-> seasonal, mapping |-> m, results |-> new_results,
           caller |-> IF own.shared THEN seasonal ELSE df]

-----------------------------------------------------------------------------
(* utils/validators.py: EcommerceValidators.validate_dataframe_structure,  *)
(* utils/helpers.py: validate_file_upload.  A message is written as an     *)
(* ASCII tag with the column and the number the text formats into it.      *)

\* an argument that is a table, and the argument None
Given(df) == [is_none |-> FALSE, frame |-> df]
NoneGiven == [is_none |-> TRUE, frame |-> <<>>]

\* df.empty: some axis of the table has length 0
IsEmptyFrame(df) == Len(df) = 0 \/ NumRows(df) = 0

Message(tag, column, count) == [message |-> tag, column |-> column, count |-> count]

\* str(col).strip() == ''
IsBlank(s) == \A i \in 1..Len(s) : Ch(s, i) = " "

\* pd.api.types.is_numeric_dtype(series)
IsNumericDtype(dtype) == dtype \in {"int64", "int32", "float64"}

\* (numeric_col < 0).sum()
NegativeCount(col) ==
  Cardinality({r \in 1..Len(col.cells) :
                 ~IsNull(col.cells[r]) /\ Ch(col.cells[r], 1) = "-"})

allowed_negative_cols == <<"discount", "refund", "return", "profit", "loss">>

\* df.duplicated().sum(): the rows equal to an earlier row
DuplicatedCount(df) ==
  LET Row(r) == [i \in 1..Len(df) |-> df[i].cells[r]]
  IN Cardinality({r \in 1..NumRows(df) : \E q \in 1..(r - 1) : Row(q) = Row(r)})

\* the columns whose share of missing values exceeds 30%
HighMissing(df) ==
  SelectSeq(df, LAMBDA col :
    100 * Cardinality({r \in 1..Len(col.cells) : IsNull(col.cells[r])})
      > 30 * Len(col.cells))

\* validate_dataframe_structure(df)
validate_dataframe_structure(arg) ==
  IF arg.is_none \/ IsEmptyFrame(arg.frame)
  THEN [valid |-> FALSE, issues |-> <<Message("empty_or_missing", "", 0)>>,
        warnings |-> <<>>, statistics |-> <<>>]
  ELSE
    LET df == arg.frame
        CountDtype(ds) == Cardinality({i \in 1..Len(df) : df[i].dtype \in ds})
        statistics ==
          [total_rows |-> NumRows(df), total_columns |-> Len(df),
           numeric_columns |-> CountDtype({"int64", "int32", "float64"}),
           text_columns |-> CountDtype({"object"}),
           date_columns |-> CountDtype({"datetime64"})]
        few_rows ==
          IF NumRows(df) < 10 THEN <<Message("too_few_rows", "", 10)>> ELSE <<>>
        few_columns ==
          IF Len(df) < 3 THEN <<Message("too_few_columns", "", 3)>> ELSE <<>>
        invalid_columns == SelectSeq(Columns(df), IsBlank)
        long_columns ==
          SelectSeq(Columns(df), LAMBDA c : ~IsBlank(c) /\ Len(c) > 50)
        long_names ==
          [i \in 1..Len(long_columns) |->
             Message("column_name_too_long", SubSeq(long_columns[i], 1, 30), 0)]
        high_missing == HighMissing(df)
        missing ==
          IF high_missing # <<>>
          THEN <<Message("high_missing", "", Len(high_missing))>> ELSE <<>>
        duplicates == DuplicatedCount(df)
        duplicated ==
          IF duplicates > 0 THEN <<Message("duplicates", "", duplicates)>> ELSE <<>>
        negative_columns ==
          SelectSeq(df, LAMBDA col :
            /\ IsNumericDtype(col.dtype)
            /\ NegativeCount(col) > 0
            /\ ~\E k \in 1..Len(allowed_negative_cols) :
                  Contains(ToLower(col.name), allowed_negative_cols[k]))
        negatives ==
          [i \in 1..Len(negative_columns) |->
             Message("negative_values", negative_columns[i].name,
                     NegativeCount(negative_columns[i]))]
    IN [valid |-> TRUE,
        issues |-> IF invalid_columns # <<>>
                   THEN <<Message("invalid_column_names", "", Len(invalid_columns))>>
                   ELSE <<>>,
        warnings |-> few_rows \o few_columns \o long_names \o missing \o duplicated
                     \o negatives,
        statistics |-> statistics]

allowed_extensions == <<".xlsx", ".xls", ".csv">>

\* file_name.endswith(ext)
EndsWith(s, ext) ==
  Len(s) >= Len(ext) /\ SubSeq(s, Len(s) - Len(ext) + 1, Len(s)) = ext

\* validate_file_upload(uploaded_file): the file is None, or has a name and
\* the table pd.read_csv / pd.read_excel makes of it (readable), or makes
\* the reader raise.  dataframe is <<>> where the code leaves None.
validate_file_upload(uploaded_file) ==
  LET Refused(tag) == [valid |-> FALSE, error |-> tag, dataframe |-> <<>>]
  IN IF uploaded_file.is_none THEN Refused("no_file")
     ELSE LET file_name == ToLower(uploaded_file.name)
          IN IF ~\E e \in 1..Len(allowed_extensions) :
                    EndsWith(file_name, allowed_extensions[e])
             THEN Refused("unsupported_type")
             ELSE IF ~uploaded_file.readable THEN Refused("read_error")
             ELSE IF NumRows(uploaded_file.frame) = 0 THEN Refused("empty_file")
             ELSE IF Len(uploaded_file.frame) < 2 THEN Refused("not_enough_columns")
             ELSE [valid |-> TRUE, error |-> "", dataframe |-> uploaded_file.frame]

-----------------------------------------------------------------------------
(* ecom_analytics.py: EcommerceAnalyticsApp, the UI shell.  Its session is *)
(* the fields dataframe, store_type and analysis_results; report is what   *)
(* generate_report hands to the report generator and exported what the     *)
(* exporter is given.  A call into a widget or into a collaborator either  *)
(* returns or raises; `fail` names the call of a handler that raises.      *)

\* self.store_type: None, or a value
NoStoreType == [is_none |-> TRUE, value |-> ""]
StoreType(v) == [is_none |-> FALSE, value |-> v]

\* what generate_report was last given
NoReport == [made |-> FALSE, analysis_results |-> <<>>, dataframe |-> NoneGiven,
             store_type |-> NoStoreType]

\* the fields as __init__ leaves them: dataframe None, store_type None,
\* analysis_results {}
NoSession ==
  [dataframe |-> NoneGiven, store_type |-> NoStoreType, analysis_results |-> <<>>,
   report |-> NoReport, exported |-> <<>>]

\* `not self.analysis_results`
IsEmptyDict(d) == DOMAIN d = {}

\* self.sales_analyzer.analyze(processed_df): the analysis of the table it
\* is given, here its store profile
sales_analyzer_analyze(df) ==
  [store_profile |-> [total_orders |-> NumRows(df), columns |-> Columns(df)]]

\* the files a user opens: two readable files of different tables
ShellFiles ==
  {[name |-> "fashion.csv",
    frame |-> <<[name |-> "size", dtype |-> "object", cells |-> <<"s", "m">>],
                [name |-> "color", dtype |-> "object", cells |-> <<"red", "blue">>]>>],
   [name |-> "devices.csv",
    frame |-> <<[name |-> "model", dtype |-> "object", cells |-> <<"a1", "b2", "c3">>],
                [name |-> "price", dtype |-> "int64", cells |-> <<"50", "70", "120">>]>>]}

\* store_detector.detect(df) for the table of each file, tabulated
DetectedOf == [df \in {f.frame : f \in ShellFiles} |-> detect(df)]

\* detect_store_type(df): the detected category, or the placeholder text
\* when the detector or the widget raises
detect_store_type(df, raises) ==
  IF raises THEN StoreType("unspecified") ELSE StoreType(DetectedOf[df].category)

\* the calls of process_file that may raise, in the order of the handler
process_file_calls == <<"copy2", "read", "update_file_info", "update_column_list">>

\* process_file(file_path): the session it leaves, and whether it ended in
\* its error handler
process_file(a, file, fail, detect_raises) ==
  IF fail \in {"copy2", "read"}
  THEN [app |-> a, handled |-> TRUE]
  ELSE LET loaded == [a EXCEPT !.dataframe = Given(file.frame)]
           typed == [loaded EXCEPT
                       !.store_type = detect_store_type(file.frame, detect_raises)]
       IN IF fail = "update_file_info" THEN [app |-> loaded, handled |-> TRUE]
          ELSE IF fail = "update_column_list" THEN [app |-> typed, handled |-> TRUE]
          ELSE [app |-> typed, handled |-> FALSE]

\* the calls of start_analysis that may raise, in the order of the handler
start_analysis_calls ==
  <<"enable_tabs", "clean_data", "analyze", "display_analysis_results", "select">>

\* start_analysis() with a loaded table: the session it leaves, and whether
\* it ended in its error handler.  auto_map handles its own exceptions and
\* touches the mapper only.
start_analysis(a, fail) ==
  IF fail \in {"enable_tabs", "clean_data", "analyze"}
  THEN [app |-> a, handled |-> TRUE]
  ELSE LET analyzed ==
             [a EXCEPT !.analysis_results = sales_analyzer_analyze(a.dataframe.frame)]
       IN [app |-> analyzed, handled |-> fail \in {"display_analysis_results", "select"}]

\* the arguments generate_report passes to report_generator.generate
generate_report(a) ==
  [a EXCEPT !.report = [made |-> TRUE, analysis_results |-> a.analysis_results,
                        dataframe |-> a.dataframe, store_type |-> a.store_type]]

-----------------------------------------------------------------------------
(* The inputs the specifications draw from, and the values of the          *)
(* variables an operation has not touched.                                 *)

NoTable == <<>>
NoMapping == <<>>
NoDetection == [category |-> "", confidence |-> <<>>, scores |-> <<>>]
NoOutcome == [raised |-> FALSE, result |-> <<>>]
NoneRemembered == [set |-> FALSE, table |-> <<>>, mapping |-> <<>>, result |-> <<>>]
DefaultConfig == [store_type |-> "general"]
NoValidation == [valid |-> TRUE, errors |-> <<>>, warnings |-> <<>>, missing_required |-> <<>>]
NoStructure == [valid |-> TRUE, issues |-> <<>>, warnings |-> <<>>, statistics |-> <<>>]
NoUpload == [valid |-> FALSE, error |-> "", dataframe |-> <<>>]
NoDisplay == [store_type |-> "", language |-> "", name |-> ""]

\* row i of a column that repeats the values of `cycle`
Cycled(cycle, n) == [i \in 1..n |-> cycle[((i - 1) % Len(cycle)) + 1]]

\* the tables whose columns are up to maxCols templates of distinct names,
\* each filled to n rows
TablesOf(templates, maxCols, n) ==
  LET Fill(t) == [name |-> t.name, dtype |-> t.dtype, cells |-> Cycled(t.values, n)]
      Seqs == UNION {[1..k -> templates] : k \in 1..maxCols}
      Distinct(q) == \A i, j \in DOMAIN q : i # j => q[i].name # q[j].name
  IN {[i \in DOMAIN q |-> Fill(q[i])] : q \in {x \in Seqs : Distinct(x)}}

MaxColsM == 2
NRowsM == 2

MapperNames == {"order_id", "order_date", "customer_id", "price", "total", "ref"}

\* what a column of a mapper table holds: integers, dates, or words
MapperContents ==
  {[dtype |-> "int64", values |-> <<"1", "2", "3">>],
   [dtype |-> "object", values |-> <<"2024-01-01", "2024-01-02", "2024-02-01">>],
   [dtype |-> "object", values |-> <<"n/a", "abc">>]}

MapperTables ==
  TablesOf({[name |-> n, dtype |-> c.dtype, values |-> c.values] :
              n \in MapperNames, c \in MapperContents},
           MaxColsM, NRowsM)

MaxColsD == 2
NRowsD == 3

DetectorTemplates ==
  {[name |-> "size", dtype |-> "object", values |-> <<"S", "M", "L">>],
   [name |-> "size", dtype |-> "object", values |-> <<"10x20x30", "XL">>],
   [name |-> "color", dtype |-> "object", values |-> <<"red", "blue">>],
   [name |-> "color", dtype |-> "object", values |-> <<"azure", "n/a">>],
   [name |-> "item", dtype |-> "object", values |-> <<"p 1", "p 2", "">>],
   [name |-> "price", dtype |-> "int64", values |-> <<"50", "70", "120">>],
   [name |-> "material", dtype |-> "object", values |-> <<"wood", "cotton">>],
   [name |-> "ingredient", dtype |-> "object", values |-> <<"organic", "100ml">>],
   [name |-> "model", dtype |-> "object", values |-> <<"128GB", "24MP", "A1">>],
   [name |-> "category", dtype |-> "object", values |-> <<"Home decor", "Tech", "">>],
   [name |-> "Category", dtype |-> "object", values |-> <<"Home decor", "Tech", "">>],
   [name |-> "plan", dtype |-> "object", values |-> <<"Monthly", "PDF">>]}

\* the table without columns, the tables of the templates without rows, and
\* the tables of the templates filled to NRowsD rows
DetectorTables ==
  {NoTable} \cup TablesOf(DetectorTemplates, MaxColsD, 0)
            \cup TablesOf(DetectorTemplates, MaxColsD, NRowsD)

MaxRowsA == 2

\* the rows of an analyzer table: an order date and a total
AnalyzerRows == {<<"2024-01-01", "10">>, <<"2024-01-02", "x">>}

AnalyzerTables ==
  {<<[name |-> "order_date", dtype |-> "object", cells |-> [i \in DOMAIN rows |-> rows[i][1]]],
     [name |-> "total", dtype |-> "object", cells |-> [i \in DOMAIN rows |-> rows[i][2]]]>> :
     rows \in UNION {[1..n -> AnalyzerRows] : n \in 0..MaxRowsA}}

AnalyzerMappings ==
  {[order_date |-> "order_date"], [total_amount |-> "total"],
   [order_date |-> "order_date", total_amount |-> "total"]}

MaxRowsO == 2

\* the rows of a table analyzed once: an order date, a customer and a total
OnceRows == {<<"2024-01-01", "c1", "10">>, <<"2024-01-02", "c1", "x">>, <<"n/a", "", "-5">>}

OnceTables ==
  {<<[name |-> "order_date", dtype |-> "object", cells |-> [i \in DOMAIN rows |-> rows[i][1]]],
     [name |-> "customer_id", dtype |-> "object", cells |-> [i \in DOMAIN rows |-> rows[i][2]]],
     [name |-> "total", dtype |-> "object", cells |-> [i \in DOMAIN rows |-> rows[i][3]]]>> :
     rows \in UNION {[1..n -> OnceRows] : n \in 0..MaxRowsO}}

\* the mappings of any subset of three fields onto their columns
OnceMappings ==
  LET full == [order_date |-> "order_date", customer_id |-> "customer_id",
               total_amount |-> "total"]
  IN {[f \in fs |-> full[f]] : fs \in SUBSET (DOMAIN full)}

\* the scenario table: six columns, three rows, no total column
ScenarioQty == {"1", "2", ""}
ScenarioPrice == {"10", "25"}

ScenarioTables ==
  {<<[name |-> "order_id", dtype |-> "int64", cells |-> <<"1", "2", "3">>],
     [name |-> "order_date", dtype |-> "object",
      cells |-> <<"2024-01-01", "2024-01-02", "2024-01-02">>],
     [name |-> "customer_id", dtype |-> "object", cells |-> <<"c1", "c2", "c1">>],
     [name |-> "product_name", dtype |-> "object", cells |-> <<"pen", "ink", "pen">>],
     [name |-> "qty", dtype |-> NumericDtype(q), cells |-> q],
     [name |-> "price", dtype |-> "int64", cells |-> pr]>> :
     q \in [1..3 -> ScenarioQty], pr \in [1..3 -> ScenarioPrice]}

MaxExtra == 1

\* the three columns a table with unambiguous required columns has
RequiredColumns ==
  {[name |-> "order_id", dtype |-> "int64", values |-> <<"1", "2">>],
   [name |-> "order_date", dtype |-> "object", values |-> <<"2024-01-01", "2024-01-02">>],
   [name |-> "total_amount", dtype |-> "int64", values |-> <<"10", "25">>]}

\* further columns whose names score for the required fields as well
ExtraColumns ==
  {[name |-> "transaction_id", dtype |-> "int64", values |-> <<"7", "8">>],
   [name |-> "invoice_no", dtype |-> "object", values |-> <<"a1", "a2">>],
   [name |-> "created_at", dtype |-> "object", values |-> <<"2023-12-31", "n/a">>],
   [name |-> "order_total", dtype |-> "int64", values |-> <<"1", "2">>],
   [name |-> "revenue_total_amount", dtype |-> "object", values |-> <<"n/a", "5">>]}

\* the tables of the three required columns and up to MaxExtra further
\* columns, in every column order, of two rows
RequiredTables ==
  {t \in TablesOf(RequiredColumns \cup ExtraColumns, Cardinality(RequiredColumns) + MaxExtra, 2) :
     \A c \in RequiredColumns : HasColumn(t, c.name)}

MaxColsV == 3
NRowsV == 3

\* the columns of a table a mapping is validated against; the total column
\* is numeric, or has one text among numbers, or mostly texts, or a gap
ValidatorColumns ==
  {[name |-> "order_id", dtype |-> "int64", values |-> <<"1", "2", "3">>],
   [name |-> "order_date", dtype |-> "object", values |-> <<"2024-01-01", "2024-01-02">>],
   [name |-> "total", dtype |-> "int64", values |-> <<"10", "20", "30">>],
   [name |-> "total", dtype |-> "object", values |-> <<"10", "x", "20">>],
   [name |-> "total", dtype |-> "object", values |-> <<"x", "y", "10">>],
   [name |-> "total", dtype |-> "object", values |-> <<"10", "", "20">>]}

ValidatorTables == TablesOf(ValidatorColumns, MaxColsV, NRowsV)

\* the mappings validated: each of four fields is unmapped, mapped to its
\* column, or mapped to a column of an earlier table
ValidatorMappings ==
  LET own == [transaction_id |-> "order_id", order_date |-> "order_date",
              total_amount |-> "total", customer_id |-> "customer_id"]
      choices == UNION {[fs -> {"own", "legacy"}] : fs \in SUBSET (DOMAIN own)}
  IN {[f \in DOMAIN ch |-> IF ch[f] = "own" THEN own[f] ELSE "old_column"] : ch \in choices}

\* tables a structure check is given: up to MaxColsS columns, without rows
\* or with NRowsS rows
MaxColsS == 2
NRowsS == 2

StructureColumns ==
  { [name |-> "order_id", dtype |-> "int64",  values |-> <<"1", "2">>],
    [name |-> "amount",   dtype |-> "int64",  values |-> <<"10", "-5">>],
    [name |-> "discount", dtype |-> "int64",  values |-> <<"-1", "0">>],
    [name |-> "note",     dtype |-> "object", values |-> <<"a", "">>],
    [name |-> " ",        dtype |-> "object", values |-> <<"x", "y">>],
    [name |-> "city",     dtype |-> "object", values |-> <<"r">>] }

StructureTables ==
  {NoTable} \cup TablesOf(StructureColumns, MaxColsS, 0)
            \cup TablesOf(StructureColumns, MaxColsS, NRowsS)

\* the names of uploaded files
FileNames == {"orders.csv", "ORDERS.XLSX", "orders.xls", "orders.txt"}


\* the store types and languages a display name is asked for: every category,
\* and names and codes the dict does not hold
DisplayTypes == StoreCategories \cup {"toys", "Fashion", "fashion ", "en", ""}
DisplayLanguages == {"ar", "en", "fr", "AR", "EN", "english", "general", ""}

\* tables for the scoring pass: up to MaxColsG columns whose names give equal
\* scores to several fields (email_id) or to several columns (id, uid)
MaxColsG == 3

GreedyNames == {"email_id", "id", "uid", "order_id", "email", "ref"}

GreedyTables ==
  TablesOf({[name |-> n, dtype |-> "object", values |-> <<"n/a", "abc">>] :
              n \in GreedyNames},
           MaxColsG, NRowsM)

\* tables for the date post-pass: up to MaxColsP columns of NRowsP rows, of
\* which 7, 8 or none are dates
MaxColsP == 2
NRowsP == 10

DateContents ==
  {<<"2024-01-01", "2024-01-02", "2024-01-03", "2024-01-04", "2024-01-05",
     "2024-01-06", "2024-01-07", "x", "y", "z">>,
   <<"2024-01-01", "2024-01-02", "2024-01-03", "2024-01-04", "2024-01-05",
     "2024-01-06", "2024-01-07", "2024-01-08", "y", "z">>,
   <<"n/a", "abc">>}

DateNames == {"ref", "note", "col", "total"}

DateTables ==
  TablesOf({[name |-> n, dtype |-> "object", values |-> v] :
              n \in DateNames, v \in DateContents},
           MaxColsP, NRowsP)

\* the configurations of an analyzer: every store category, and a store
\* type outside the vocabulary
Configs == {[store_type |-> t] : t \in StoreCategories \cup {"toys"}}

\* tables for the customer analysis: a customer and a total per row, up to
\* MaxRowsC rows
MaxRowsC == 3

CustomerRows ==
  {<<"c1", "10">>, <<"c2", "20">>, <<"c3", "5">>, <<"c1", "7">>, <<"", "3">>, <<"c2", "x">>}

CustomerTables ==
  {<<[name |-> "customer_id", dtype |-> "object", cells |-> [i \in DOMAIN rows |-> rows[i][1]]],
     [name |-> "total", dtype |-> "object", cells |-> [i \in DOMAIN rows |-> rows[i][2]]]>> :
     rows \in UNION {[1..n -> CustomerRows] : n \in 0..MaxRowsC}}

CustomerMappings ==
  {[customer_id |-> "customer_id"], [customer_id |-> "customer_id", total_amount |-> "total"]}

-----------------------------------------------------------------------------
(* Operations.                                                             *)

\* nothing has run yet
InitResults ==
  /\ pc = "start"
  /\ scoring = NoMapping
  /\ detected = NoDetection
  /\ self_dataframe = NoTable
  /\ self_mapping = NoMapping
  /\ self_results = <<>>
  /\ outcome = NoOutcome
  /\ remembered = NoneRemembered
  /\ validation = NoValidation
  /\ structure = NoStructure
  /\ upload = NoUpload
  /\ display = NoDisplay
  /\ app = NoSession

InitRest == config = DefaultConfig /\ InitResults

\* mapper.auto_detect(table)
AutoDetect ==
  /\ pc = "start"
  /\ LET r == auto_detect_steps(table)
     IN mapping' = r.suggestions /\ scoring' = r.scoring
  /\ pc' = "mapped"
  /\ UNCHANGED <<table, detected, config, self_dataframe, self_mapping, self_results,
                 outcome, remembered, validation, structure, upload, display, app>>

\* detector.detect(table)
Detect ==
  /\ pc = "start"
  /\ detected' = detect(table)
  /\ pc' = "detected"
  /\ UNCHANGED <<table, mapping, scoring, config, self_dataframe, self_mapping,
                 self_results, outcome, remembered, validation, structure, upload,
                 display, app>>

\* analyzer.analyze(df, m) on the one analyzer instance
AnalyzeCall(df, m) ==
  LET r == analyze(df, m, config, self_results)
  IN /\ table' = r.caller
     /\ mapping' = r.mapping
     /\ self_dataframe' = r.dataframe
     /\ self_mapping' = r.mapping
     /\ self_results' = r.results
     /\ outcome' = r.outcome
     /\ pc' = "analyzed"
     /\ remembered' \in
          {remembered} \cup
          (IF ~remembered.set /\ ~r.outcome.raised
           THEN {[set |-> TRUE, table |-> df, mapping |-> m, result |-> r.outcome.result]}
           ELSE {})
     /\ UNCHANGED <<scoring, detected, config, validation, structure, upload, display, app>>

\* a caller analyzes some table under some mapping onto its columns
Analyze ==
  \E df \in AnalyzerTables, m \in AnalyzerMappings : AnalyzeCall(df, m)

\* a caller analyzes the table under the mapping auto_detect returned
AnalyzeMapped ==
  /\ pc = "mapped"
  /\ AnalyzeCall(table, mapping)

\* a caller analyzes its table under its mapping on a fresh analyzer
AnalyzeFresh ==
  /\ pc = "start"
  /\ AnalyzeCall(table, mapping)

InitIdle == mapping = NoMapping /\ InitRest

InitMapper == table \in MapperTables /\ InitIdle
NextMapper == AutoDetect
SpecMapper == InitMapper /\ [][NextMapper]_vars

InitDetector == table \in DetectorTables /\ InitIdle
NextDetector == Detect
SpecDetector == InitDetector /\ [][NextDetector]_vars

InitAnalyzer == table = NoTable /\ InitIdle
NextAnalyzer == Analyze
SpecAnalyzer == InitAnalyzer /\ [][NextAnalyzer]_vars

InitPipeline == table \in ScenarioTables /\ InitIdle
NextPipeline == AutoDetect \/ AnalyzeMapped
SpecPipeline == InitPipeline /\ [][NextPipeline]_vars

\* mapper.validate_mapping(table, mapping) on the caller's mapping
Validate ==
  /\ pc = "start"
  /\ validation' = validate_mapping(table, mapping)
  /\ pc' = "validated"
  /\ UNCHANGED <<table, mapping, scoring, detected, config, self_dataframe, self_mapping,
                 self_results, outcome, remembered, structure, upload, display, app>>

\* mapper.validate_mapping(table, mapping) on the mapping auto_detect returned
ValidateMapped ==
  /\ pc = "mapped"
  /\ validation' = validate_mapping(table, mapping)
  /\ pc' = "mapped_validated"
  /\ UNCHANGED <<table, mapping, scoring, detected, config, self_dataframe, self_mapping,
                 self_results, outcome, remembered, structure, upload, display, app>>

InitValidator == table \in ValidatorTables /\ mapping \in ValidatorMappings /\ InitRest
NextValidator == Validate
SpecValidator == InitValidator /\ [][NextValidator]_vars

InitAutoValidate == table \in RequiredTables /\ InitIdle
NextAutoValidate == AutoDetect \/ ValidateMapped
SpecAutoValidate == InitAutoValidate /\ [][NextAutoValidate]_vars

\* EcommerceValidators.validate_dataframe_structure on the table, or on None
ValidateStructure ==
  /\ pc = "start"
  /\ \E arg \in {Given(table), NoneGiven} :
       structure' = validate_dataframe_structure(arg)
  /\ pc' = "structured"
  /\ UNCHANGED <<table, mapping, scoring, detected, config, self_dataframe, self_mapping,
                 self_results, outcome, remembered, validation, upload, display, app>>

\* helpers.validate_file_upload on a file that holds the table, or on None
ValidateUpload ==
  /\ pc = "start"
  /\ \E name \in FileNames, readable, is_none \in BOOLEAN :
       upload' = validate_file_upload([is_none |-> is_none, name |-> name,
                                       readable |-> readable, frame |-> table])
  /\ pc' = "uploaded"
  /\ UNCHANGED <<table, mapping, scoring, detected, config, self_dataframe, self_mapping,
                 self_results, outcome, remembered, validation, structure, display, app>>

InitStructure == table \in StructureTables /\ InitIdle
NextStructure == ValidateStructure \/ ValidateUpload
SpecStructure == InitStructure /\ [][NextStructure]_vars

\* detector.get_store_type_display_name(store_type, language)
DisplayName ==
  /\ pc = "start"
  /\ \E store_type \in DisplayTypes, language \in DisplayLanguages :
       display' = [store_type |-> store_type, language |-> language,
                   name |-> get_store_type_display_name(store_type, language)]
  /\ pc' = "displayed"
  /\ UNCHANGED <<table, mapping, scoring, detected, config, self_dataframe, self_mapping,
                 self_results, outcome, remembered, validation, structure, upload, app>>

InitDisplay == table = NoTable /\ InitIdle
NextDisplay == DisplayName
SpecDisplay == InitDisplay /\ [][NextDisplay]_vars

InitGreedy == table \in GreedyTables /\ InitIdle
NextGreedy == AutoDetect
SpecGreedy == InitGreedy /\ [][NextGreedy]_vars

InitDates == table \in DateTables /\ InitIdle
NextDates == AutoDetect
SpecDates == InitDates /\ [][NextDates]_vars

\* a fresh analyzer of any configuration analyzes a table once
InitConfigured ==
  table \in OnceTables /\ mapping \in OnceMappings /\ config \in Configs /\ InitResults
NextConfigured == AnalyzeFresh
SpecConfigured == InitConfigured /\ [][NextConfigured]_vars

\* open_file / open_recent_file: the user picks a file and process_file runs
ProcessFile ==
  /\ \E file \in ShellFiles, fail \in Range(process_file_calls) \cup {"none"},
        detect_raises \in BOOLEAN :
       LET r == process_file(app, file, fail, detect_raises)
       IN /\ app' = r.app
          /\ pc' = IF r.handled THEN "process_file_error" ELSE "process_file_done"
  /\ UNCHANGED <<table, mapping, scoring, detected, config, self_dataframe, self_mapping,
                 self_results, outcome, remembered, validation, structure, upload,
                 display>>

\* the user presses the analyze button
StartAnalysis ==
  /\ IF app.dataframe.is_none
     THEN app' = app /\ pc' = "start_analysis_refused"
     ELSE \E fail \in Range(start_analysis_calls) \cup {"none"} :
            LET r == start_analysis(app, fail)
            IN /\ app' = r.app
               /\ pc' = IF r.handled THEN "start_analysis_error" ELSE "start_analysis_done"
  /\ UNCHANGED <<table, mapping, scoring, detected, config, self_dataframe, self_mapping,
                 self_results, outcome, remembered, validation, structure, upload,
                 display>>

\* the user asks for the report
GenerateReport ==
  /\ IF IsEmptyDict(app.analysis_results)
     THEN app' = app /\ pc' = "generate_report_refused"
     ELSE app' = generate_report(app) /\ pc' = "generate_report_done"
  /\ UNCHANGED <<table, mapping, scoring, detected, config, self_dataframe, self_mapping,
                 self_results, outcome, remembered, validation, structure, upload,
                 display>>

\* save_report_as / export_results: the exporter is given analysis_results
ExportResults ==
  /\ ~IsEmptyDict(app.analysis_results)
  /\ app' = [app EXCEPT !.exported = app.analysis_results]
  /\ pc' = "export_done"
  /\ UNCHANGED <<table, mapping, scoring, detected, config, self_dataframe, self_mapping,
                 self_results, outcome, remembered, validation, structure, upload,
                 display>>

InitShell == table = NoTable /\ InitIdle
NextShell == ProcessFile \/ StartAnalysis \/ GenerateReport \/ ExportResults
SpecShell == InitShell /\ [][NextShell]_vars

InitCustomers == table \in CustomerTables /\ mapping \in CustomerMappings /\ InitRest
NextCustomers == AnalyzeFresh
SpecCustomers == InitCustomers /\ [][NextCustomers]_vars

InitOnce == table \in OnceTables /\ mapping \in OnceMappings /\ InitRest
NextOnce == AnalyzeFresh
SpecOnce == InitOnce /\ [][NextOnce]_vars

-----------------------------------------------------------------------------
(* Claims.                                                                 *)

Injective(f) == \A a, b \in DOMAIN f : a # b => f[a] # f[b]

\* C1: the mapping auto_detect returns is injective: no column is the target
\* of two different fields (a field has one column by construction), the
\* order_date post-pass included.
C1_MappingInjective == pc = "mapped" => Injective(mapping)

\* C2: two analyze calls on one analyzer instance that are given the same
\* table and mapping and both return, return the same result, whatever calls
\* were made before them.
C2_EqualInputsEqualResults ==
  (/\ pc = "analyzed"
   /\ ~outcome.raised
   /\ remembered.set
   /\ remembered.table = table
   /\ remembered.mapping = mapping)
  => outcome.result = remembered.result

\* the sections of an analysis result
Sections ==
  {"store_profile", "sales_performance", "customer_analysis", "product_analysis",
   "financial_analysis", "marketing_analysis", "inventory_analysis", "seasonal_analysis",
   "benchmarks", "recommendations", "data_quality"}

\* C3: analyze on a freshly constructed analyzer, with any table and any
\* mapping onto its columns, returns (does not raise) a result with its sections.
C3_FreshAnalyzeReturns ==
  pc = "analyzed" => ~outcome.raised /\ DOMAIN outcome.result = Sections

\* unit_price * quantity of row i of the caller's table, a missing operand as 0
RowProduct(i) ==
  LET q == ToNumeric(Col(table, mapping["quantity"]).cells[i], "object")
      u == ToNumeric(Col(table, mapping["unit_price"]).cells[i], "object")
  IN (IF IsNull(q) THEN 0 ELSE IntOf(q)) * (IF IsNull(u) THEN 0 ELSE IntOf(u))

NeedsDerivedTotal ==
  /\ "total_amount" \notin DOMAIN mapping
  /\ {"unit_price", "quantity"} \subseteq DOMAIN mapping

\* C4: when total_amount is unmapped and unit_price and quantity are mapped,
\* cleaning extends the analyzer's mapping with total_amount, pointing at a
\* derived column whose value in every row is unit_price * quantity.
C4_DerivedTotal ==
  (pc = "analyzed" /\ NeedsDerivedTotal)
  => /\ "total_amount" \in DOMAIN self_mapping
     /\ HasColumn(self_dataframe, self_mapping["total_amount"])
     /\ LET derived == Col(self_dataframe, self_mapping["total_amount"]).cells
        IN \A i \in 1..NumRows(table) :
             ~IsNull(derived[i]) /\ IntOf(derived[i]) = RowProduct(i)

\* the mapping the scenario expects of auto_detect
ScenarioMapping ==
  [transaction_id |-> "order_id", order_date |-> "order_date",
   customer_id |-> "customer_id", product_name |-> "product_name",
   quantity |-> "qty", unit_price |-> "price"]

\* C5 (first half): on the six-column scenario table auto_detect maps every
\* field to its namesake column, quantity to qty and unit_price to price.
ScenarioMapped == pc \in {"mapped", "analyzed"} => mapping = ScenarioMapping

\* C5: on the six-column scenario table the mapping is the expected one and
\* analyze under it reports total_revenue = the sum of qty * price over the rows.
C5_ScenarioRevenue ==
  pc = "analyzed"
  => /\ mapping = ScenarioMapping
     /\ ~outcome.raised
     /\ outcome.result["sales_performance"].total_revenue =
          RInt(SumOver([i \in 1..NumRows(table) |-> RowProduct(i)], 1..NumRows(table)))

ConfidenceOf(st) == detected.confidence[st]

AllZeroConfidence == \A st \in DOMAIN detected.confidence : ConfidenceOf(st).num = 0

\* C6: detect returns a category of the closed vocabulary and a confidence map
\* of non-negative values that sum to 100 or are all zero, all zero only when
\* every raw score is 0.
C6_DetectResult ==
  pc = "detected"
  => /\ detected.category \in StoreCategories
     /\ \A st \in DOMAIN detected.confidence :
          ConfidenceOf(st).num >= 0 /\ ConfidenceOf(st).den > 0
     /\ \/ AllZeroConfidence
        \/ \E d \in {ConfidenceOf(st).den : st \in DOMAIN detected.confidence} :
             /\ \A st \in DOMAIN detected.confidence : ConfidenceOf(st).den = d
             /\ SumOver([st \in DOMAIN detected.confidence |-> ConfidenceOf(st).num],
                        DOMAIN detected.confidence) = 100 * d
     /\ AllZeroConfidence => \A st \in DOMAIN detected.scores : detected.scores[st] = 0

\* C6 witness: a detection with signal for two categories
C6_Witness ==
  /\ pc = "detected"
  /\ detected.category # "general"
  /\ Cardinality({st \in DOMAIN detected.confidence : ConfidenceOf(st).num > 0}) >= 2

\* C7: the score map and the confidence map have an entry for every category
\* of the vocabulary, general included.
C7_GeneralScored ==
  pc = "detected"
  => DOMAIN detected.scores = StoreCategories /\ DOMAIN detected.confidence = StoreCategories

\* position of a store type in the enumeration order
EnumIndex(st) == CHOOSE i \in 1..Len(StoreTypes) : StoreTypes[i] = st

\* C8: when some raw score is non-zero, the reported category has the maximal
\* raw score, and every category earlier in the enumeration order has a
\* strictly smaller one.
C8_ArgmaxFirst ==
  (pc = "detected" /\ \E st \in DOMAIN detected.scores : detected.scores[st] # 0)
  => /\ detected.category \in DOMAIN detected.scores
     /\ \A st \in DOMAIN detected.scores :
          /\ detected.scores[st] <= detected.scores[detected.category]
          /\ EnumIndex(st) < EnumIndex(detected.category)
               => detected.scores[st] < detected.scores[detected.category]

\* C8 witness: two categories share the maximal score and the earlier is reported
C8_Witness ==
  /\ pc = "detected"
  /\ detected.category = "fashion"
  /\ detected.scores["fashion"] > 0
  /\ detected.scores["home_garden"] = detected.scores["fashion"]

\* the lower-cased text of the cells of column c that detect samples or reads
CellTexts(c, rows) == {ToLower(AsStr(rows[r], c.dtype)) : r \in 1..Len(rows)}

\* no column name of the table contains a column keyword of any category
NoColumnKeyword(cols) ==
  \A i \in 1..Len(cols) : \A st \in ScoreKeys :
    \A k \in 1..Len(STORE_PATTERNS[st].column_keywords) :
      ~Contains(ToLower(cols[i].name), STORE_PATTERNS[st].column_keywords[k])

\* no sampled value of a text column matches a value pattern of any category
\* (matching as detect does it: the lower-cased value against the pattern)
NoValueMatch(cols) ==
  \A i \in 1..Len(cols) :
    cols[i].dtype = "object" =>
      \A v \in CellTexts(cols[i], Head_n(cols[i].cells, 20)) : \A st \in ScoreKeys :
        \A k \in 1..Len(STORE_PATTERNS[st].value_patterns) :
          ~Search(STORE_PATTERNS[st].value_patterns[k], v, FALSE)

\* no value of a category or type column contains a category keyword
NoCategoryKeyword(cols) ==
  \A i \in 1..Len(cols) :
    (Contains(ToLower(cols[i].name), "categor") \/ Contains(ToLower(cols[i].name), "type"))
    => \A v \in CellTexts(cols[i], DropNa(cols[i].cells)) : \A st \in ScoreKeys :
         \A k \in 1..Len(STORE_PATTERNS[st].category_keywords) :
           ~Contains(v, STORE_PATTERNS[st].category_keywords[k])

\* C9: a table without any column keyword, value-pattern match or category
\* keyword is detected as general with a confidence map of zeros.
C9_NoSignalGeneral ==
  (pc = "detected" /\ NoColumnKeyword(table) /\ NoValueMatch(table) /\ NoCategoryKeyword(table))
  => detected.category = "general" /\ AllZeroConfidence

\* C9 witness: such a table with a text column has been through detect
C9_Witness ==
  /\ pc = "detected"
  /\ NoColumnKeyword(table) /\ NoValueMatch(table) /\ NoCategoryKeyword(table)
  /\ \E i \in 1..Len(table) : table[i].dtype = "object" /\ table[i].cells # <<>>

\* the columns of the table other than size and color
OtherColumns == SelectSeq(table, LAMBDA c : c.name \notin {"size", "color"})

\* a size column of S, M, L values, a color column of red/blue or unmatched
\* values, and no signal in any other column
SizeColorScenario ==
  /\ HasColumn(table, "size") /\ HasColumn(table, "color")
  /\ \A r \in 1..NumRows(table) :
       /\ Col(table, "size").cells[r] \in {"S", "M", "L"}
       /\ \/ Col(table, "color").cells[r] \in {"red", "blue"}
          \/ NoValueMatch(<<[Col(table, "color") EXCEPT !.cells = <<@[r]>>]>>)
  /\ NoColumnKeyword(OtherColumns) /\ NoValueMatch(OtherColumns)
  /\ NoCategoryKeyword(OtherColumns)

\* a / b > c / d for fractions of positive denominators
FracGreater(x, y) == x.num * y.den > y.num * x.den

\* C10: on a size (S, M, L) and color table without other signal, detect
\* returns fashion with a confidence strictly above every other category's.
C10_FashionScenario ==
  (pc = "detected" /\ SizeColorScenario)
  => /\ detected.category = "fashion"
     /\ \A st \in DOMAIN detected.confidence \ {"fashion"} :
          FracGreater(ConfidenceOf("fashion"), ConfidenceOf(st))

\* C10 witness: the scenario table with a color column of unmatched values
C10_Witness ==
  /\ pc = "detected"
  /\ SizeColorScenario
  /\ NumRows(table) > 0
  /\ NoValueMatch(<<Col(table, "color")>>)

\* C11: detect returns (does not raise), and for every empty table, whether
\* it has no rows or no columns, the category it returns is general.
C11_EmptyTableGeneral ==
  (pc = "detected" /\ NumRows(table) = 0) => detected.category = "general"

\* C12: on a table with columns order_id, order_date and total_amount, with
\* whatever further columns in whatever order, validate_mapping accepts the
\* mapping auto_detect returned: the three required fields are assigned, each
\* to a column of the table.
C12_AutoMappingValid ==
  pc = "mapped_validated"
  => /\ validation.valid
     /\ \A i \in 1..Len(required_fields) :
          /\ required_fields[i] \in DOMAIN mapping
          /\ HasColumn(table, mapping[required_fields[i]])

\* C12 witness: a further column has taken a required field from its namesake
C12_Witness ==
  /\ pc = "mapped_validated"
  /\ validation.valid
  /\ \/ mapping["transaction_id"] # "order_id"
     \/ mapping["total_amount"] # "total_amount"

\* the required fields the caller's mapping lacks
AbsentRequired == {"transaction_id", "order_date", "total_amount"} \ DOMAIN mapping

\* C13: validate_mapping returns a result, in which every required field
\* (transaction_id, order_date, total_amount) that the mapping lacks is listed
\* in missing_required, and valid is false when there is such a field.
C13_MissingRequired ==
  pc = "validated"
  => /\ Range(validation.missing_required) = AbsentRequired
     /\ AbsentRequired # {} => ~validation.valid

\* C13 witness: a mapping with some required fields and without others
C13_Witness ==
  /\ pc = "validated"
  /\ "total_amount" \in AbsentRequired
  /\ "transaction_id" \in DOMAIN mapping
  /\ ~validation.valid

\* the entries of the caller's mapping whose column the table does not have
StaleEntries ==
  {f \in DOMAIN mapping : \A i \in 1..Len(table) : table[i].name # mapping[f]}

\* C14: whenever a mapped column, of a required or an optional field, is not
\* a column of the table, validate_mapping returns valid = false, and errors
\* holds one message per such entry, naming its column.
C14_StaleColumns ==
  pc = "validated"
  => /\ StaleEntries # {} => ~validation.valid
     /\ DOMAIN validation.errors = {mapping[f] : f \in StaleEntries}
     /\ \A c \in DOMAIN validation.errors :
          validation.errors[c] = Cardinality({f \in StaleEntries : mapping[f] = c})

\* C14 witness: only an optional field is mapped to a column the table lacks,
\* all required fields being mapped to columns of the table
C14_Witness ==
  /\ pc = "validated"
  /\ StaleEntries = {"customer_id"}
  /\ AbsentRequired = {}
  /\ ~validation.valid

\* the values of the column total_amount is mapped to, and those of them
\* that do not convert to a number
AmountCells == Col(table, mapping["total_amount"]).cells
NotNumeric ==
  {r \in 1..Len(AmountCells) :
     ~IsNull(AmountCells[r]) /\ ~IsIntText(AmountCells[r])
     /\ Col(table, mapping["total_amount"]).dtype = "object"}

\* C15: validate_mapping records a warning for the total_amount column if and
\* only if a majority of its values do not convert to a number, and a warning
\* does not change valid.
C15_WarnOnMajority ==
  (pc = "validated" /\ "total_amount" \in DOMAIN mapping
     /\ "total_amount" \notin StaleEntries)
  => /\ validation.warnings # <<>> <=> 2 * Cardinality(NotNumeric) > Len(AmountCells)
     /\ validation.valid = (AbsentRequired = {} /\ StaleEntries = {})

\* C16: an analyze call leaves the caller's table as it was, with the columns,
\* values and types it had, and leaves the caller's mapping as it was: the
\* coerced columns and the month and day_of_week columns are on the
\* analyzer's copy only.
C16_CallerTableUntouched ==
  [][pc' = "analyzed" => table' = table /\ mapping' = mapping]_vars

\* C16 witness: analyze has returned and its own table has the coerced
\* columns and the two derived ones, which the caller's table has not
C16_Witness ==
  /\ pc = "analyzed"
  /\ ~outcome.raised
  /\ HasColumn(self_dataframe, "month") /\ HasColumn(self_dataframe, "day_of_week")
  /\ ~HasColumn(table, "month")
  /\ NumRows(table) > 0
  /\ Col(self_dataframe, "total").dtype # Col(table, "total").dtype

\* the numbers of an analysis result that come out of an addition or a division
ResultNumbers ==
  LET r == outcome.result
      sales == r["sales_performance"]
      profit == r["financial_analysis"].profitability
  IN {sales.total_revenue, sales.average_order_value, sales.orders_per_day,
      sales.revenue_per_day, r["customer_analysis"].repeat_rate,
      r["inventory_analysis"].turnover_estimate}
     \cup {profit[k] : k \in DOMAIN profit}

\* C17: analyze on a table without rows, under any mapping onto its columns,
\* returns, with total_revenue, average_order_value, orders_per_day and
\* revenue_per_day all 0 and without a NaN among the numbers of the result.
C17_ZeroRows ==
  (pc = "analyzed" /\ NumRows(table) = 0)
  => /\ ~outcome.raised
     /\ LET sales == outcome.result["sales_performance"]
        IN /\ sales.total_revenue = RInt(0)
           /\ sales.average_order_value = RInt(0)
           /\ sales.orders_per_day = RInt(0)
           /\ sales.revenue_per_day = RInt(0)
     /\ \A x \in ResultNumbers : x.den > 0
     /\ outcome.result["data_quality"].completeness_score = 0

\* C17 witness: a table without rows analyzed with order_date, customer_id
\* and total_amount all mapped
C17_Witness ==
  /\ pc = "analyzed"
  /\ NumRows(table) = 0
  /\ Len(table) > 0
  /\ DOMAIN mapping = {"order_date", "customer_id", "total_amount"}
  /\ ~outcome.raised

-----------------------------------------------------------------------------
(* C18: a table that is empty or has fewer than two columns is reported by *)
(* the structure validators as invalid, with an issue message, and never   *)
(* as valid with a warning; in particular a non-empty one-column table.    *)

TooSmall(df) == NumRows(df) = 0 \/ Len(df) < 2

\* C18: after either structure validator ran on a table that is empty or
\* has fewer than two columns, its result has valid = FALSE and names an issue
C18_SmallTableInvalid ==
  /\ pc = "structured" /\ TooSmall(table)
     => ~structure.valid /\ structure.issues # <<>>
  /\ pc = "uploaded" /\ TooSmall(table)
     => ~upload.valid /\ upload.error # ""

-----------------------------------------------------------------------------
(* C19: get_store_type_display_name returns the fixed localized name of    *)
(* each of the nine categories in 'ar' and in 'en', and the type unchanged *)
(* when the language or the type is unknown.                               *)

KnownLanguages == {"ar", "en"}

\* C19: the name shown for a category in 'ar' or 'en' is that language's
\* label of the category, a text other than the type; for any other language
\* or type the name shown is the type as given
C19_DisplayName ==
  pc = "displayed"
  => IF display.language \in KnownLanguages /\ display.store_type \in StoreCategories
     THEN /\ display.name = display_names[display.language][display.store_type]
          /\ display.name # display.store_type
     ELSE display.name = display.store_type

C19_Witness ==
  /\ pc = "displayed"
  /\ display.store_type = "fashion"
  /\ display.language = "en"
  /\ display.name = "Fashion Stores"

-----------------------------------------------------------------------------
(* C20: in value-sample scoring every value of a text column within the    *)
(* first 20 rows that matches a value pattern of a category ('M' or 'XL'   *)
(* for fashion, '128GB' or '24MP' for electronics, 'PDF' for digital) adds *)
(* 0.5 to that category and nothing to a category whose patterns it does   *)
(* not match; rows beyond the sample add nothing.                          *)

\* the number of (value, pattern) matches of a store type among the values,
\* as the table holds them, of the first 20 rows of the text columns
SampleMatches(df, store_type) ==
  LET pats == STORE_PATTERNS[store_type].value_patterns
  IN Cardinality({<<i, k, r>> \in (1..Len(df)) \X (1..Len(pats)) \X (1..20) :
       /\ df[i].dtype = "object"
       /\ r <= Len(df[i].cells)
       /\ ~IsNull(df[i].cells[r])
       /\ Search(pats[k], df[i].cells[r], FALSE)})

\* C20: the score of every store type is what the column names and the
\* category column give it plus 0.5 (one half) for each value of the sample
\* that matches one of its value patterns
C20_ValueSampleScoring ==
  pc = "detected"
  => \A st \in ScoreKeys :
       detected.scores[st] =
         ColumnNameScore(table, st) + CategoryScore(table, st) + SampleMatches(table, st)

-----------------------------------------------------------------------------
(* C21: for the first column whose name, compared without case, contains   *)
(* 'categor' or 'type', every category keyword found in one of its non-null*)
(* lower-cased values adds 3 to its category, whatever the case of the     *)
(* column's name.                                                          *)

\* the columns whose name contains 'categor' or 'type' when lower-cased
NamedCategory(df) ==
  SelectSeq(df, LAMBDA c : Contains(ToLower(c.name), "categor")
                           \/ Contains(ToLower(c.name), "type"))

\* the halves the first such column gives a store type: 6 per keyword that
\* occurs in one of its non-null lower-cased values
KeywordHalves(df, store_type) ==
  IF NamedCategory(df) = <<>> THEN 0
  ELSE LET col == NamedCategory(df)[1]
           present == DropNa(col.cells)
           values == {ToLower(AsStr(present[r], col.dtype)) : r \in 1..Len(present)}
           kws == STORE_PATTERNS[store_type].category_keywords
       IN 6 * Cardinality({k \in 1..Len(kws) : \E v \in values : Contains(v, kws[k])})

\* C21: the score of every store type is what the column names and the
\* sampled values give it plus 3 per category keyword found in the first
\* category column, however that column's name is cased
C21_CategoryColumnScoring ==
  pc = "detected"
  => \A st \in ScoreKeys :
       detected.scores[st] =
         ColumnNameScore(table, st) + ValueScore(table, st) + KeywordHalves(table, st)

-----------------------------------------------------------------------------
(* C22: the mapping before the post-pass is the greedy assignment over the *)
(* triples of positive score in descending score order, triples of equal   *)
(* score in generation order; a triple is taken only if its column and its *)
(* field are both unassigned.                                              *)

\* the triples of positive score of the table: column index, field index
Triples ==
  {t \in (1..Len(table)) \X (1..Len(FieldTypes)) :
     MatchScore(table[t[1]].name, FieldTypes[t[2]]) > 0}

TripleScore(t) == MatchScore(table[t[1]].name, FieldTypes[t[2]])

\* t is taken before u: a greater score, or the same score and generated
\* earlier (an earlier column, or the same column and an earlier field)
TakenBefore(t, u) ==
  \/ TripleScore(t) > TripleScore(u)
  \/ /\ TripleScore(t) = TripleScore(u)
     /\ (t[1] < u[1] \/ (t[1] = u[1] /\ t[2] < u[2]))

\* the triples the mapping of the scoring pass holds
InScoring(t) ==
  /\ FieldTypes[t[2]] \in DOMAIN scoring
  /\ scoring[FieldTypes[t[2]]] = table[t[1]].name

\* C22: a triple is in the mapping of the scoring pass exactly when no
\* triple taken before it that is in the mapping has its column or its
\* field, and the mapping holds nothing but such triples
C22_GreedyAssignment ==
  pc = "mapped"
  => /\ \A t \in Triples :
          InScoring(t) <=> ~\E u \in Triples :
                              /\ TakenBefore(u, t) /\ InScoring(u)
                              /\ (u[1] = t[1] \/ u[2] = t[2])
     /\ \A f \in DOMAIN scoring : \E t \in Triples : FieldTypes[t[2]] = f /\ InScoring(t)

\* C22 witness: two triples of equal score compete for a column or a field
C22_Witness ==
  /\ pc = "mapped"
  /\ \E t, u \in Triples :
       /\ t # u /\ TripleScore(t) = TripleScore(u)
       /\ (t[1] = u[1] \/ t[2] = u[2])
       /\ InScoring(t) /\ ~InScoring(u)

-----------------------------------------------------------------------------
(* C23: when the scoring pass gave order_date no column, the first column, *)
(* among those assigned to no field, of whose first 10 non-null values at  *)
(* least 70% convert to dates becomes order_date; 7 of 10 qualifies.       *)

\* at least 70% of the first 10 non-null values of the column are dates
SampleMostlyDates(col) ==
  LET sample == Head_n(DropNa(col.cells), 10)
      ok == Cardinality({i \in 1..Len(sample) : ToDatetime(sample[i], col.dtype) # ""})
  IN Len(sample) > 0 /\ 10 * ok >= 7 * Len(sample)

\* the columns the post-pass may take, in table order
DateCandidates ==
  SelectSeq(table, LAMBDA c : c.name \notin Range(scoring) /\ SampleMostlyDates(c))

\* C23: after auto_detect, when the scoring pass left order_date unmapped,
\* order_date is the first unassigned column with at least 70% dates in its
\* sample, and is unmapped when there is none
C23_DatePostPass ==
  (pc = "mapped" /\ "order_date" \notin DOMAIN scoring)
  => IF DateCandidates # <<>>
     THEN "order_date" \in DOMAIN mapping /\ mapping["order_date"] = DateCandidates[1].name
     ELSE "order_date" \notin DOMAIN mapping

-----------------------------------------------------------------------------
(* C24: sales_performance of an analyze call: total_revenue is the sum of  *)
(* the total_amount column, average_order_value is total_revenue over the  *)
(* row count (0 without rows) and, when order_date is mapped, orders_per_day*)
(* and revenue_per_day are the row count and the revenue over active_days  *)
(* of the same result, 0 when active_days is 0.                            *)

\* C24: a call that returned reports the sales figures of the table and the
\* mapping it was given, the daily ones (stated here for a positive revenue)
\* over the active days of its own store_profile
C24_SalesPerformance ==
  (pc = "analyzed" /\ ~outcome.raised)
  => LET sales == outcome.result["sales_performance"]
         active_days == outcome.result["store_profile"].active_days
         rows == NumRows(table)
         cleaned == clean_data(table, mapping)
         revenue == IF "total_amount" \in DOMAIN mapping
                    THEN SumCells(Col(cleaned, mapping["total_amount"]).cells) ELSE 0
     IN /\ sales.total_revenue = RInt(revenue)
        /\ sales.average_order_value = (IF rows > 0 THEN Rat(revenue, rows) ELSE RInt(0))
        /\ ("order_date" \in DOMAIN mapping /\ revenue > 0)
           => /\ sales.orders_per_day =
                   (IF active_days > 0 THEN Rat(rows, active_days) ELSE RInt(0))
              /\ sales.revenue_per_day =
                   (IF active_days > 0 THEN Rat(revenue, active_days) ELSE RInt(0))

-----------------------------------------------------------------------------
(* C25: financial_analysis with total_amount mapped: estimated_cogs is the *)
(* revenue times the ratio of the category, 0.50 for a category outside the*)
(* ratio table; gross_profit = revenue - estimated_cogs; net_profit_estimate*)
(* = 0.7 * gross_profit; gross_margin = gross_profit / revenue * 100 for a *)
(* positive revenue and 0 otherwise, hence within [0, 100].                *)

\* the keys of the ratio table
RatioKeys ==
  {"fashion", "electronics", "beauty", "digital", "subscription", "handmade", "food",
   "general"}

\* the sum of the total_amount column of the caller's table once coerced
Revenue ==
  RInt(SumCells(Col(clean_data(table, mapping), mapping["total_amount"]).cells))

\* C25: the profitability figures of a call that returned, with total_amount
\* mapped, follow from the revenue and the ratio of the configured category
C25_Financials ==
  (pc = "analyzed" /\ ~outcome.raised /\ "total_amount" \in DOMAIN mapping)
  => LET p == outcome.result["financial_analysis"].profitability
         ratio == IF config.store_type \in RatioKeys
                  THEN Rat(CostRatioPct(config.store_type), 100) ELSE Rat(1, 2)
     IN /\ p.total_revenue = Revenue
        /\ p.estimated_cogs = RMul(Revenue, ratio)
        /\ p.gross_profit = RSub(Revenue, p.estimated_cogs)
        /\ RSub(Revenue, p.gross_profit) = p.estimated_cogs
        /\ p.net_profit_estimate = RMul(p.gross_profit, Rat(7, 10))
        /\ p.gross_margin = (IF RPos(Revenue)
                             THEN RMul(RDiv(p.gross_profit, Revenue), RInt(100))
                             ELSE RInt(0))
        /\ p.gross_margin.den > 0
        /\ p.gross_margin.num >= 0 /\ p.gross_margin.num <= 100 * p.gross_margin.den

\* C25 witness: a positive revenue analyzed for a category outside the table
C25_Witness ==
  /\ pc = "analyzed" /\ ~outcome.raised
  /\ "total_amount" \in DOMAIN mapping
  /\ config.store_type = "home_garden"
  /\ RPos(Revenue)
  /\ outcome.result["financial_analysis"].profitability.gross_margin = RInt(50)

-----------------------------------------------------------------------------
(* C26: data_quality: completeness_score = floor(100 * (1 - missing/total))*)
(* over the cells of the table given to analyze, missing cells counted     *)
(* after type coercion (0 for a table without cells), whatever fields are  *)
(* mapped; negative values of total_amount add exactly one issue;          *)
(* overall_score = floor(0.7 * completeness_score); both within 0..100.    *)

\* the missing cells of the caller's table once coerced
MissingAfterCoercion ==
  LET cleaned == clean_data(table, mapping)
  IN Cardinality({<<c, r>> \in (1..Len(cleaned)) \X (1..NumRows(cleaned)) :
                    IsNull(cleaned[c].cells[r])})

\* C26: the data_quality scores of a call that returned are those of the
\* cells of the table it was given
C26_DataQuality ==
  (pc = "analyzed" /\ ~outcome.raised)
  => LET q == outcome.result["data_quality"]
         total == NumRows(table) * Len(table)
         amounts == IF "total_amount" \in DOMAIN mapping
                    THEN Col(clean_data(table, mapping), mapping["total_amount"]).cells
                    ELSE <<>>
         negative == \E r \in 1..Len(amounts) :
                       ~IsNull(amounts[r]) /\ IntOf(amounts[r]) < 0
     IN /\ q.completeness_score =
             (IF total > 0 THEN (100 * (total - MissingAfterCoercion)) \div total ELSE 0)
        /\ q.overall_score = (7 * q.completeness_score) \div 10
        /\ Len(q.issues) = (IF negative THEN 1 ELSE 0)
        /\ q.completeness_score \in 0..100 /\ q.overall_score \in 0..100

-----------------------------------------------------------------------------
(* C27: whenever process_file or start_analysis ends in its error handler, *)
(* the session's dataframe, store_type and analysis_results hold the values*)
(* they had before the action started.                                     *)

\* C27: a step of process_file or start_analysis that ends in the error
\* handler leaves dataframe, store_type and analysis_results as they were
C27_ErrorLeavesSession ==
  [][pc' \in {"process_file_error", "start_analysis_error"}
     => /\ app'.dataframe = app.dataframe
        /\ app'.store_type = app.store_type
        /\ app'.analysis_results = app.analysis_results]_vars

-----------------------------------------------------------------------------
(* C28: in every reachable state of the UI shell a non-empty               *)
(* analysis_results was computed from the currently loaded dataframe, so   *)
(* that a report or an export never combines the analysis of one file with *)
(* the table of another.                                                   *)

\* C28: a non-empty analysis_results is the analysis of the loaded table, and
\* the report last generated was given the analysis of the table it was given
C28_ResultsOfLoadedTable ==
  /\ ~IsEmptyDict(app.analysis_results)
     => /\ ~app.dataframe.is_none
        /\ app.analysis_results = sales_analyzer_analyze(app.dataframe.frame)
  /\ app.report.made
     => app.report.analysis_results = sales_analyzer_analyze(app.report.dataframe.frame)

-----------------------------------------------------------------------------
(* C29: in the mapping of the scoring pass no pair of positive score has   *)
(* both its column and its field unassigned, the highest-scoring triple is *)
(* part of the mapping, every mapped column is a column of the table and   *)
(* every mapped field a field of the canonical dictionary.                 *)

\* the triple taken first: of the highest score, the earliest generated
FirstTriple == CHOOSE t \in Triples : \A u \in Triples : u = t \/ TakenBefore(t, u)

\* C29: the mapping of the scoring pass is maximal, holds the first of the
\* highest-scoring triples, and maps canonical fields to columns of the table
C29_GreedyMaximal ==
  pc = "mapped"
  => /\ \A t \in Triples :
          \/ table[t[1]].name \in Range(scoring)
          \/ FieldTypes[t[2]] \in DOMAIN scoring
     /\ Triples # {} => InScoring(FirstTriple)
     /\ \A f \in DOMAIN scoring :
          f \in Range(FieldTypes) /\ HasColumn(table, scoring[f])

\* C29 witness: a triple was passed over because of a conflict and a triple
\* behind it was taken
C29_Witness ==
  /\ pc = "mapped"
  /\ \E t, u \in Triples : TakenBefore(t, u) /\ ~InScoring(t) /\ InScoring(u)

-----------------------------------------------------------------------------
(* C30: with customer_id mapped, 0 <= repeat_customers <= total_customers  *)
(* and repeat_rate = repeat_customers / total_customers * 100 lies in      *)
(* [0, 100] (0 without customers); with total_amount mapped as well the    *)
(* vip, high_value, medium_value and low_value segments are pairwise       *)
(* disjoint and their counts sum to total_customers.                       *)

\* the customers of the caller's table
CustomerIds == {c \in Range(Col(table, mapping["customer_id"]).cells) : ~IsNull(c)}

\* C30: the customer figures of a call that returned, with customer_id
\* mapped, are consistent: the repeat customers are among the customers, the
\* rate is their share in percent, and the four segments count every
\* customer once
C30_CustomerInvariants ==
  (pc = "analyzed" /\ ~outcome.raised /\ "customer_id" \in DOMAIN mapping)
  => LET c == outcome.result["customer_analysis"]
         seg == c.customer_segments
     IN /\ c.total_customers = Cardinality(CustomerIds)
        /\ c.repeat_customers \in 0..c.total_customers
        /\ c.repeat_rate = (IF c.total_customers > 0
                            THEN Rat(c.repeat_customers * 100, c.total_customers)
                            ELSE RInt(0))
        /\ c.repeat_rate.den > 0
        /\ c.repeat_rate.num >= 0 /\ c.repeat_rate.num <= 100 * c.repeat_rate.den
        /\ "total_amount" \in DOMAIN mapping
           => /\ DOMAIN seg = {"vip", "high_value", "medium_value", "low_value"}
              /\ \A k \in DOMAIN seg : seg[k] \in 0..c.total_customers
              /\ seg.vip + seg.high_value + seg.medium_value + seg.low_value
                   = c.total_customers

\* C30 witness: three customers of different revenue, one of them repeating,
\* fall into more than one segment
C30_Witness ==
  /\ pc = "analyzed" /\ ~outcome.raised
  /\ DOMAIN mapping = {"customer_id", "total_amount"}
  /\ LET c == outcome.result["customer_analysis"]
     IN /\ c.total_customers >= 2
        /\ c.repeat_customers >= 1
        /\ c.customer_segments.vip >= 1
        /\ c.customer_segments.low_value >= 1

====
